---- MODULE Spec2Model ----
(***************************************************************************)
(* Heart Chaser (src/final pacman/src/main.c): the tick interrupt with its *)
(* background-tune sequencer, the blocking delay, the rectangle test and   *)
(* the main game loop, as state machines.                                  *)
(*                                                                         *)
(* The program memory (globals, the handler's statics, main's locals) is   *)
(* one TLA+ variable per C variable.  Sequential code is written as        *)
(* operators from a memory record to a memory record (Cur is the record of *)
(* the current state, Commit(s) assigns the record s to the next state),   *)
(* so that one action is one whole pass of the code it models.             *)
(***************************************************************************)
EXTENDS Integers, Sequences, FiniteSets, TLC

(* ------------------------------------------------------------------ *)
(* Bounds of the model (not program constants)                         *)
(* ------------------------------------------------------------------ *)
\* cycles of its tune a run of the tune sequencer alone may take
MaxCycles == 2
\* longest generated tune, and longest generated note duration
MaxNotes == 3
MaxDur == 2
\* largest delay requested in the delay specification, and its tick budget
MaxDly == 3
MaxDelayTicks == 6

(* ------------------------------------------------------------------ *)
(* Machine arithmetic                                                  *)
(* ------------------------------------------------------------------ *)
\* uint16_t arithmetic is modulo 2^16
U16 == 65536
NULL == <<>>

u16(n) == n % U16

\* A uint32_t is kept at its full width as two 16-bit halves <<high, low>>
\* (its value is high * 2^16 + low); U32Of(n) is the uint32_t of a small n.
U32Of(n) == <<(n \div U16) % U16, n % U16>>

\* a + b, a - b (modulo 2^32), a < b and a % 2 on uint32_t
U32Add(a, b) ==
    LET low == a[2] + b[2] IN
    <<(a[1] + b[1] + (low \div U16)) % U16, low % U16>>

U32Sub(a, b) ==
    LET borrow == IF a[2] < b[2] THEN 1 ELSE 0 IN
    <<(a[1] - b[1] - borrow) % U16, (a[2] - b[2]) % U16>>

U32Lt(a, b) == a[1] < b[1] \/ (a[1] = b[1] /\ a[2] < b[2])

U32Odd(a) == a[2] % 2

\* my_notes[] = {A3,C5,B2,D1,F6}: the note macros of musical_notes.h, by
\* their frequencies in Hz; my_note_times[] in ticks
my_notes == <<220, 523, 123, 37, 1397>>
my_note_times == <<200, 300, 400, 100, 500>>

VARIABLES
    milliseconds,                   \* volatile uint32_t, the tick counter
    background_tune_notes,          \* NULL or the note array
    background_tune_times,          \* NULL or the duration array
    background_tune_note_count,
    background_repeat_tune,
    pumpkin_move_delay,             \* uint32_t: clock at the last enemy pass
    game_won,
    game_over,
    show_game_over_menu,
    game_over_selection,            \* 0 = Play Again, 1 = Main Menu
    heart_x,                        \* heart1_x .. heart4_x (uint16_t), by heart number
    heart_y,                        \* heart1_y .. heart4_y (uint16_t)
    heart_direction_x,              \* heart1_direction_x .. heart4_direction_x
    heart_direction_y,              \* heart1_direction_y .. heart4_direction_y
    heart_move_delay,               \* uint32_t: clock at the last drift step
    heart_eaten,                    \* heart1_eaten .. heart4_eaten
    current_level,
    hearts_collected,
    enemies,                        \* Enemy enemies[MAX_ENEMIES], indexed from 0
    in_menu,
    selected_option,
    menu_drawn,                     \* main's static menu_drawn
    x,                              \* main's local x (uint16_t): the player
    y,                              \* main's local y (uint16_t)
    hmoved,                         \* main's local hmoved
    vmoved,                         \* main's local vmoved
    index,                          \* SysTick_Handler's static index
    current_note_timer,             \* SysTick_Handler's static current_note_timer
    pc,                             \* where the foreground flow stands
    dly,                            \* delay's argument
    end_time,                       \* delay's local (uint32_t)
    args,                           \* isInside's arguments
    rvalue,                         \* isInside's return value
    \* observations (not program memory)
    ticks,                          \* interrupts taken since the initial state
    steps,                          \* foreground steps taken since the initial state
    drifts,                         \* passes through the drift block since the initial state
    slack,                          \* interrupts taken since the foreground's last step
    tone,                           \* the audio collaborator: the last playNote argument
    cycle_started,                  \* indexes the handler started since the last wrap
    last_cycle,                     \* cycle_started of the last completed cycle
    calls                           \* calls made during the last step

vars == <<milliseconds, background_tune_notes, background_tune_times,
          background_tune_note_count, background_repeat_tune,
          pumpkin_move_delay, game_won, game_over, show_game_over_menu,
          game_over_selection, heart_x, heart_y, heart_direction_x,
          heart_direction_y, heart_move_delay, heart_eaten,
          current_level, hearts_collected, enemies, in_menu,
          selected_option, menu_drawn, x, y, hmoved, vmoved, index, current_note_timer,
          pc, dly, end_time, args, rvalue, ticks, steps, drifts, slack, tone,
          cycle_started, last_cycle, calls>>

Cur ==
    [milliseconds |-> milliseconds,
     background_tune_notes |-> background_tune_notes,
     background_tune_times |-> background_tune_times,
     background_tune_note_count |-> background_tune_note_count,
     background_repeat_tune |-> background_repeat_tune,
     pumpkin_move_delay |-> pumpkin_move_delay,
     game_won |-> game_won,
     game_over |-> game_over,
     show_game_over_menu |-> show_game_over_menu,
     game_over_selection |-> game_over_selection,
     heart_x |-> heart_x,
     heart_y |-> heart_y,
     heart_direction_x |-> heart_direction_x,
     heart_direction_y |-> heart_direction_y,
     heart_move_delay |-> heart_move_delay,
     heart_eaten |-> heart_eaten,
     current_level |-> current_level,
     hearts_collected |-> hearts_collected,
     enemies |-> enemies,
     in_menu |-> in_menu,
     selected_option |-> selected_option,
     menu_drawn |-> menu_drawn,
     x |-> x,
     y |-> y,
     hmoved |-> hmoved,
     vmoved |-> vmoved,
     index |-> index,
     current_note_timer |-> current_note_timer,
     pc |-> pc,
     dly |-> dly,
     end_time |-> end_time,
     args |-> args,
     rvalue |-> rvalue,
     ticks |-> ticks,
     steps |-> steps,
     drifts |-> drifts,
     slack |-> slack,
     tone |-> tone,
     cycle_started |-> cycle_started,
     last_cycle |-> last_cycle,
     calls |-> calls]

Commit(s) ==
    /\ milliseconds' = s.milliseconds
    /\ background_tune_notes' = s.background_tune_notes
    /\ background_tune_times' = s.background_tune_times
    /\ background_tune_note_count' = s.background_tune_note_count
    /\ background_repeat_tune' = s.background_repeat_tune
    /\ pumpkin_move_delay' = s.pumpkin_move_delay
    /\ game_won' = s.game_won
    /\ game_over' = s.game_over
    /\ show_game_over_menu' = s.show_game_over_menu
    /\ game_over_selection' = s.game_over_selection
    /\ heart_x' = s.heart_x
    /\ heart_y' = s.heart_y
    /\ heart_direction_x' = s.heart_direction_x
    /\ heart_direction_y' = s.heart_direction_y
    /\ heart_move_delay' = s.heart_move_delay
    /\ heart_eaten' = s.heart_eaten
    /\ current_level' = s.current_level
    /\ hearts_collected' = s.hearts_collected
    /\ enemies' = s.enemies
    /\ in_menu' = s.in_menu
    /\ selected_option' = s.selected_option
    /\ menu_drawn' = s.menu_drawn
    /\ x' = s.x
    /\ y' = s.y
    /\ hmoved' = s.hmoved
    /\ vmoved' = s.vmoved
    /\ index' = s.index
    /\ current_note_timer' = s.current_note_timer
    /\ pc' = s.pc
    /\ dly' = s.dly
    /\ end_time' = s.end_time
    /\ args' = s.args
    /\ rvalue' = s.rvalue
    /\ ticks' = s.ticks
    /\ steps' = s.steps
    /\ drifts' = s.drifts
    /\ slack' = s.slack
    /\ tone' = s.tone
    /\ cycle_started' = s.cycle_started
    /\ last_cycle' = s.last_cycle
    /\ calls' = s.calls

InitAs(s) ==
    /\ milliseconds = s.milliseconds
    /\ background_tune_notes = s.background_tune_notes
    /\ background_tune_times = s.background_tune_times
    /\ background_tune_note_count = s.background_tune_note_count
    /\ background_repeat_tune = s.background_repeat_tune
    /\ pumpkin_move_delay = s.pumpkin_move_delay
    /\ game_won = s.game_won
    /\ game_over = s.game_over
    /\ show_game_over_menu = s.show_game_over_menu
    /\ game_over_selection = s.game_over_selection
    /\ heart_x = s.heart_x
    /\ heart_y = s.heart_y
    /\ heart_direction_x = s.heart_direction_x
    /\ heart_direction_y = s.heart_direction_y
    /\ heart_move_delay = s.heart_move_delay
    /\ heart_eaten = s.heart_eaten
    /\ current_level = s.current_level
    /\ hearts_collected = s.hearts_collected
    /\ enemies = s.enemies
    /\ in_menu = s.in_menu
    /\ selected_option = s.selected_option
    /\ menu_drawn = s.menu_drawn
    /\ x = s.x
    /\ y = s.y
    /\ hmoved = s.hmoved
    /\ vmoved = s.vmoved
    /\ index = s.index
    /\ current_note_timer = s.current_note_timer
    /\ pc = s.pc
    /\ dly = s.dly
    /\ end_time = s.end_time
    /\ args = s.args
    /\ rvalue = s.rvalue
    /\ ticks = s.ticks
    /\ steps = s.steps
    /\ drifts = s.drifts
    /\ slack = s.slack
    /\ tone = s.tone
    /\ cycle_started = s.cycle_started
    /\ last_cycle = s.last_cycle
    /\ calls = s.calls

\* last_cycle before the first wrap
NoCycle == <<-1>>

\* MAX_ENEMIES
MAX_ENEMIES == 6

\* the memory at reset: zeroed statics and the initialisers of main.c
PowerOn ==
    [milliseconds |-> U32Of(0),
     background_tune_notes |-> NULL,
     background_tune_times |-> NULL,
     background_tune_note_count |-> 0,
     background_repeat_tune |-> 0,
     pumpkin_move_delay |-> U32Of(0),
     game_won |-> 0,
     game_over |-> 0,
     show_game_over_menu |-> 0,
     game_over_selection |-> 0,
     heart_x |-> <<40, 60, 80, 30>>,
     heart_y |-> <<80, 90, 70, 100>>,
     heart_direction_x |-> <<1, 1, 1, 1>>,
     heart_direction_y |-> <<1, 1, 1, 1>>,
     heart_move_delay |-> U32Of(0),
     heart_eaten |-> <<0, 0, 0, 0>>,
     current_level |-> 1,
     hearts_collected |-> 0,
     enemies |-> [i \in 0..(MAX_ENEMIES - 1) |-> [x |-> 0, y |-> 0, active |-> 0, speed |-> 0]],
     in_menu |-> 1,
     selected_option |-> 0,
     menu_drawn |-> 0,
     x |-> 50,
     y |-> 50,
     hmoved |-> 0,
     vmoved |-> 0,
     index |-> 0,
     current_note_timer |-> 0,
     pc |-> "loop",
     dly |-> 0,
     end_time |-> U32Of(0),
     args |-> [x1 |-> 0, y1 |-> 0, w |-> 0, h |-> 0, px |-> 0, py |-> 0],
     rvalue |-> 0,
     ticks |-> 0,
     steps |-> 0,
     drifts |-> 0,
     slack |-> 0,
     tone |-> 0,
     cycle_started |-> <<>>,
     last_cycle |-> NoCycle,
     calls |-> <<>>]

\* a step starts with an empty call log
Begin(s) == [s EXCEPT !.calls = <<>>]

(* ------------------------------------------------------------------ *)
(* Audio collaborator                                                  *)
(* ------------------------------------------------------------------ *)
\* playNote(n), called by `by` ("isr" or "main"): the tone requested last
playNote(s, n, by) ==
    [s EXCEPT !.tone = n,
              !.calls = Append(@, [fn |-> "playNote", arg |-> n, by |-> by])]

(* ------------------------------------------------------------------ *)
(* SysTick_Handler                                                     *)
(* ------------------------------------------------------------------ *)
\* index >= background_tune_note_count, after index++
TuneNoMoreNotes(i, count) == i >= count

\* TuneAdvance that does not clear background_tune_notes at the end of a
\* tune that is not repeated
TuneAdvance_NeverStops(s) ==
    LET i == s.index + 1 IN
    IF TuneNoMoreNotes(i, s.background_tune_note_count)
    THEN IF s.background_repeat_tune = 0
         THEN [s EXCEPT !.index = 0]
         ELSE [s EXCEPT !.index = 0,
                        !.last_cycle = s.cycle_started,
                        !.cycle_started = <<>>]
    ELSE playNote([s EXCEPT !.index = i,
                            !.current_note_timer = s.background_tune_times[i + 1],
                            !.cycle_started = Append(@, i)],
                  s.background_tune_notes[i + 1], "isr")

\* the branch taken when current_note_timer == 0
TuneAdvance(s) ==
    LET i == s.index + 1 IN
    IF TuneNoMoreNotes(i, s.background_tune_note_count)
    THEN IF s.background_repeat_tune = 0
         THEN [s EXCEPT !.index = i, !.background_tune_notes = NULL]
         ELSE [s EXCEPT !.index = 0,
                        !.last_cycle = s.cycle_started,
                        !.cycle_started = <<>>]
    ELSE playNote([s EXCEPT !.index = i,
                            !.current_note_timer = s.background_tune_times[i + 1],
                            !.cycle_started = Append(@, i)],
                  s.background_tune_notes[i + 1], "isr")

SysTick_Handler(s) ==
    LET s1 == [s EXCEPT !.milliseconds = U32Add(@, U32Of(1)), !.ticks = @ + 1] IN
    IF s1.background_tune_notes # NULL
    THEN LET s2 == IF s1.current_note_timer = 0 THEN TuneAdvance(s1) ELSE s1 IN
         IF s2.current_note_timer # 0
         THEN [s2 EXCEPT !.current_note_timer = @ - 1]
         ELSE s2
    ELSE s1

(* ------------------------------------------------------------------ *)
(* The tune sequencer alone: a configured tune, stepped by the tick    *)
(* ------------------------------------------------------------------ *)
Durations == 0..MaxDur

\* the duration arrays tried: every array of 1..MaxNotes durations, and the
\* first three and all five of my_note_times
TuneTimes ==
    UNION {[1..n -> Durations] : n \in 1..MaxNotes}
        \cup {SubSeq(my_note_times, 1, 3), my_note_times}

TuneInit ==
    \E t \in TuneTimes, r \in {0, 1} :
        InitAs([PowerOn EXCEPT !.pc = "tune",
                               !.background_tune_notes = SubSeq(my_notes, 1, Len(t)),
                               !.background_tune_times = t,
                               !.background_tune_note_count = Len(t),
                               !.background_repeat_tune = r])

RECURSIVE SumSeq(_)
SumSeq(q) == IF q = <<>> THEN 0 ELSE Head(q) + SumSeq(Tail(q))

\* ticks that cover MaxCycles passes over the configured tune
TuneBudget == MaxCycles * (SumSeq(background_tune_times) + background_tune_note_count + 1)

TuneTick ==
    /\ pc = "tune"
    /\ ticks < TuneBudget
    /\ Commit(SysTick_Handler(Begin(Cur)))

TuneNext == TuneTick

SpecTune == TuneInit /\ [][TuneNext]_vars

(* ------------------------------------------------------------------ *)
(* Claims about the tune sequencer                                     *)
(* ------------------------------------------------------------------ *)
PlayNoteCalls == {k \in 1..Len(calls) : calls[k].fn = "playNote"}

\* C5: with the repeat flag set, the handler starts the notes in sequence
\* order from index 0, and every completed cycle started every index
\* 0..count-1 exactly once.
C5_TonesInSequenceOrder ==
    (pc = "tune" /\ background_repeat_tune = 1) =>
        /\ \A k \in 1..Len(cycle_started) : cycle_started[k] = k - 1
        /\ last_cycle # NoCycle =>
               last_cycle = [k \in 1..background_tune_note_count |-> k - 1]

\* C6 as stated: with the repeat flag clear, once the handler has run for
\* the sum of the durations the sequencer is Idle and stays so, and later
\* handler runs start no tone.
C6_IdleAfterSumOfDurations ==
    (pc = "tune" /\ background_repeat_tune = 0
        /\ ticks >= 1
        /\ ticks >= SumSeq(background_tune_times)) =>
        /\ background_tune_notes = NULL
        /\ ticks > SumSeq(background_tune_times) => PlayNoteCalls = {}

\* C6 amended: the same, for a tune whose durations are all at least 1 tick.
C6_IdleAfterSumOfPositiveDurations ==
    (pc = "tune" /\ background_repeat_tune = 0
        /\ ticks >= 1
        /\ (\A k \in 1..Len(background_tune_times) : background_tune_times[k] >= 1)
        /\ ticks >= SumSeq(background_tune_times)) =>
        /\ background_tune_notes = NULL
        /\ ticks > SumSeq(background_tune_times) => PlayNoteCalls = {}

\* the three-note tune [200,300,400] without repeat, 900 ticks after its
\* start and later: Idle
C6_Witness ==
    /\ pc = "tune" /\ background_repeat_tune = 0
    /\ background_tune_times = <<200, 300, 400>>
    /\ ticks > 900
    /\ background_tune_notes = NULL

(* ------------------------------------------------------------------ *)
(* delay, statement by statement, with the tick interrupt in between   *)
(* ------------------------------------------------------------------ *)
\* end_time = dly + milliseconds
DelayEndTime(d, ms) == U32Add(U32Of(d), ms)

\* while (milliseconds < end_time), in place of !=
DelayWaits_LessThan(ms, e) == U32Lt(ms, e)

\* the loop condition milliseconds != end_time
DelayWaits(ms, e) == ms # e

\* line 1295
DelayEntry ==
    /\ pc = "delay_entry"
    /\ Commit([Begin(Cur) EXCEPT !.end_time = DelayEndTime(dly, milliseconds),
                                 !.pc = "delay_test"])

\* line 1296: one evaluation of the loop condition; then wfi, or return
DelayTest ==
    /\ pc = "delay_test"
    /\ Commit([Begin(Cur) EXCEPT !.pc = IF DelayWaits(milliseconds, end_time)
                                        THEN "delay_wfi" ELSE "delay_ret"])

\* a tick that only counts the clock while the foreground is in delay
DelayTick_ClockOnly ==
    /\ pc \in {"delay_entry", "delay_test", "delay_wfi", "delay_ret"}
    /\ ticks < MaxDelayTicks
    /\ Commit([Begin(Cur) EXCEPT
                   !.milliseconds = U32Add(@, U32Of(1)), !.ticks = @ + 1,
                   !.pc = IF pc = "delay_wfi" THEN "delay_test" ELSE pc])

\* the tick interrupt: it is taken wherever the foreground stands, and it
\* ends a wfi
DelayTick ==
    /\ pc \in {"delay_entry", "delay_test", "delay_wfi", "delay_ret"}
    /\ ticks < MaxDelayTicks
    /\ Commit([SysTick_Handler(Begin(Cur)) EXCEPT
                   !.pc = IF pc = "delay_wfi" THEN "delay_test" ELSE pc])

\* clock values a delay starts at: small, and just below the wrap of 2^32
DelayClocks == {U32Of(0), U32Of(1500), <<U16 - 1, U16 - 2>>, <<U16 - 1, U16 - 1>>}

\* the background tune as main configures it (lines 823-826)
WithBackgroundTune(s) ==
    [s EXCEPT !.background_tune_notes = my_notes,
              !.background_tune_times = my_note_times,
              !.background_tune_note_count = 5,
              !.background_repeat_tune = 1]

\* where the background tune stands when a delay starts: not configured,
\* just configured, two ticks before the end of note 1, or one tick before
\* the end of the last note
TunePhases == {"off", "start", "mid", "end"}

AtTunePhase(s, phase) ==
    IF phase = "off" THEN s
    ELSE IF phase = "start" THEN WithBackgroundTune(s)
    ELSE IF phase = "mid"
         THEN [WithBackgroundTune(s) EXCEPT !.index = 1, !.current_note_timer = 2,
                                            !.cycle_started = <<1>>]
    ELSE [WithBackgroundTune(s) EXCEPT !.index = 4, !.current_note_timer = 1,
                                       !.cycle_started = <<1, 2, 3, 4>>]

DelayInit ==
    \E d \in 0..MaxDly, ms \in DelayClocks, phase \in TunePhases :
        LET s == [PowerOn EXCEPT !.pc = "delay_entry", !.dly = d,
                                 !.milliseconds = ms]
        IN InitAs(AtTunePhase(s, phase))

DelayNext == DelayEntry \/ DelayTest \/ DelayTick

SpecDelay == DelayInit /\ [][DelayNext]_vars

\* C7: delay(dly) has not returned before dly ticks have passed since the
\* call (the counter has reached t1 + dly modulo 2^32).
C7_DelayNotEarly == pc = "delay_ret" => ticks >= dly

\* a delay of 3 begun at 2^32 - 2 has returned, the counter wrapped to 1
C7_Witness ==
    pc = "delay_ret" /\ dly = 3 /\ ticks = 3 /\ milliseconds = U32Of(1)

\* C8: delay never goes on blocking after a check at which
\* now() - start >= dly, start being the clock value it read on entry; in
\* particular delay(0) never blocks.
C8_DelayStopsOnceElapsed ==
    pc = "delay_wfi" =>
        U32Lt(U32Sub(milliseconds, U32Sub(end_time, U32Of(dly))), U32Of(dly))

(* ------------------------------------------------------------------ *)
(* isInside                                                            *)
(* ------------------------------------------------------------------ *)
\* isInside with an exclusive upper bound (px < x2, py < y2)
isInside_Exclusive(x1, y1, w, h, px, py) ==
    LET x2 == u16(x1 + w)
        y2 == u16(y1 + h)
    IN IF px >= x1 /\ px < x2
       THEN IF py >= y1 /\ py < y2 THEN 1 ELSE 0
       ELSE 0

\* int isInside(uint16_t x1, y1, w, h, px, py)
isInside(x1, y1, w, h, px, py) ==
    LET x2 == u16(x1 + w)
        y2 == u16(y1 + h)
    IN IF px >= x1 /\ px <= x2
       THEN IF py >= y1 /\ py <= y2 THEN 1 ELSE 0
       ELSE 0

\* on-screen rectangles and points the function is called with: the
\* screen's corners, the sprite size 12x16, the rectangle (10,10) and the
\* points on and next to its bounds
InsideArgs ==
    [x1 : {0, 10, 115}, y1 : {0, 10, 144}, w : {0, 12}, h : {0, 16},
     px : {0, 9, 10, 16, 22, 23, 115, 127},
     py : {0, 9, 10, 18, 26, 27, 144, 159}]

InsideInit ==
    \E a \in InsideArgs : InitAs([PowerOn EXCEPT !.pc = "inside_call", !.args = a])

InsideCall ==
    /\ pc = "inside_call"
    /\ Commit([Begin(Cur) EXCEPT
                   !.rvalue = isInside(args.x1, args.y1, args.w, args.h,
                                       args.px, args.py),
                   !.pc = "inside_ret"])

InsideNext == InsideCall

SpecInside == InsideInit /\ [][InsideNext]_vars

\* C9: isInside returns 1 iff x1 <= px <= x1+w and y1 <= py <= y1+h, and 0
\* otherwise; for the rectangle (10,10) of size 12x16, (10,10) and (22,26)
\* are inside and (23,10) is not.
C9_IsInsideClosedBounds ==
    pc = "inside_ret" =>
        /\ rvalue \in {0, 1}
        /\ rvalue = 1 <=>
               (/\ args.x1 <= args.px /\ args.px <= args.x1 + args.w
                /\ args.y1 <= args.py /\ args.py <= args.y1 + args.h)

\* the upper-bound corner (22,26) of the rectangle (10,10) 12x16 is inside
C9_Witness ==
    /\ pc = "inside_ret"
    /\ args = [x1 |-> 10, y1 |-> 10, w |-> 12, h |-> 16, px |-> 22, py |-> 26]
    /\ rvalue = 1

(* ------------------------------------------------------------------ *)
(* The game: helpers of the main loop                                  *)
(* ------------------------------------------------------------------ *)
\* bounds of the model: foreground steps of a run, and tick interrupts
\* taken between two foreground steps
MaxSteps == 2
MaxSlack == 1
\* passes through the drift block (the rand() draws) a run may make
MaxDrifts == 1

\* n runs of the tick handler
RECURSIVE Ticks(_, _)
Ticks(s, n) ==
    IF n = 0 THEN s
    ELSE IF n = 1 THEN SysTick_Handler(s)
    ELSE CHOOSE r \in {Ticks(half, n - (n \div 2)) : half \in {Ticks(s, n \div 2)}} : TRUE

\* a delay that counts from zero: the clock reset, then n ticks
Delay_ResetsClock(s, n) ==
    CHOOSE r \in {Ticks([t EXCEPT !.milliseconds = U32Of(0)], n) : t \in {s}} : TRUE

\* delay(n) as its caller sees it when every tick is met by a test of the
\* loop condition: it returns at the n-th tick after the call, the handler
\* having run n times
Delay(s, n) == CHOOSE r \in {Ticks(t, n) : t \in {s}} : TRUE

\* a call of fn recorded with what it saw and what it left
Logged(s, fn, pre, post) ==
    [s EXCEPT !.calls = Append(@, [fn |-> fn, pre |-> pre, post |-> post])]

\* initEnemies (its drawing left out)
initEnemies(s) ==
    IF s.current_level = 1
    THEN [s EXCEPT !.enemies[0] = [x |-> 10, y |-> 10, active |-> 1, speed |-> 1]]
    ELSE [s EXCEPT !.enemies[0] = [x |-> 10, y |-> 10, active |-> 1, speed |-> 1],
                   !.enemies[1] = [x |-> 100, y |-> 10, active |-> 1, speed |-> 1],
                   !.enemies[2] = [x |-> 60, y |-> 140, active |-> 1, speed |-> 1]]

\* drawBackground only draws
drawBackground(s) == s

\* showWinScreen: the fanfare, and the delays of the celebration
\* (4 x 100, 500, 22 x 1 in the separator loop, 4 x 200, 200)
showWinScreen(s) ==
    LET a == Delay(playNote(s, 800, "main"), 200)
        b == Delay(playNote(a, 1000, "main"), 200)
        c == Delay(playNote(b, 1200, "main"), 200)
        d == Delay(playNote(c, 1500, "main"), 400)
        e == playNote(d, 0, "main")
        f == Delay(Delay(Delay(Delay(e, 100), 100), 100), 100)
        g == Delay(f, 500)
        h == Delay(g, 22)
        i == Delay(Delay(Delay(Delay(h, 200), 200), 200), 200)
    IN Delay(i, 200)

\* what checkWinCondition reads and writes
WinView(s) ==
    [current_level |-> s.current_level, heart_eaten |-> s.heart_eaten,
     hearts_collected |-> s.hearts_collected, game_won |-> s.game_won,
     enemies |-> s.enemies, x |-> s.x, y |-> s.y]

\* a level taken as complete with at least one heart collected
LevelComplete_AnyHeart(collected, required_hearts, won) ==
    collected >= 1 /\ won = 0

\* the comparison without the test of game_won
LevelComplete_IgnoresWon(collected, required_hearts, won) ==
    collected = required_hearts

\* hearts_collected == required_hearts && !game_won
LevelComplete(collected, required_hearts, won) ==
    collected = required_hearts /\ won = 0

\* checkWinCondition with the eaten flags cleared on the final win as
\* they are on the level transition
checkWinCondition_WinClearsHearts(s) ==
    LET required_hearts == IF s.current_level = 1 THEN 2 ELSE 4
        collected ==
            s.heart_eaten[1] + s.heart_eaten[2]
                + (IF s.current_level = 2
                   THEN s.heart_eaten[3] + s.heart_eaten[4] ELSE 0)
        s1 == [s EXCEPT !.hearts_collected = collected]
        r == IF LevelComplete(collected, required_hearts, s1.game_won)
             THEN IF s1.current_level = 1
                  THEN drawBackground(initEnemies(Delay(
                           [s1 EXCEPT !.current_level = 2,
                                      !.heart_eaten = <<0, 0, 0, 0>>], 2000)))
                  ELSE showWinScreen([s1 EXCEPT !.game_won = 1,
                                                !.heart_eaten = <<0, 0, 0, 0>>])
             ELSE s1
    IN Logged(r, "checkWinCondition", WinView(s), WinView(r))

\* checkWinCondition without the branch on the level: every completed
\* level is the win
checkWinCondition_WinOnAnyLevel(s) ==
    LET required_hearts == IF s.current_level = 1 THEN 2 ELSE 4
        collected ==
            s.heart_eaten[1] + s.heart_eaten[2]
                + (IF s.current_level = 2
                   THEN s.heart_eaten[3] + s.heart_eaten[4] ELSE 0)
        s1 == [s EXCEPT !.hearts_collected = collected]
        r == IF LevelComplete(collected, required_hearts, s1.game_won)
             THEN showWinScreen([s1 EXCEPT !.game_won = 1])
             ELSE s1
    IN Logged(r, "checkWinCondition", WinView(s), WinView(r))

\* checkWinCondition(x, y): x and y are passed by value
checkWinCondition(s) ==
    LET required_hearts == IF s.current_level = 1 THEN 2 ELSE 4
        collected ==
            s.heart_eaten[1] + s.heart_eaten[2]
                + (IF s.current_level = 2
                   THEN s.heart_eaten[3] + s.heart_eaten[4] ELSE 0)
        s1 == [s EXCEPT !.hearts_collected = collected]
        r == IF LevelComplete(collected, required_hearts, s1.game_won)
             THEN IF s1.current_level = 1
                  THEN drawBackground(initEnemies(Delay(
                           [s1 EXCEPT !.current_level = 2,
                                      !.heart_eaten = <<0, 0, 0, 0>>], 2000)))
                  ELSE showWinScreen([s1 EXCEPT !.game_won = 1])
             ELSE s1
    IN Logged(r, "checkWinCondition", WinView(s), WinView(r))

\* what moveEnemies reads and writes
EnemyView(s) ==
    [enemies |-> s.enemies, x |-> s.x, y |-> s.y,
     current_level |-> s.current_level, game_won |-> s.game_won,
     milliseconds |-> s.milliseconds,
     pumpkin_move_delay |-> s.pumpkin_move_delay]

\* the moves in y compared with the player's x
EnemyStep_SameAxis(e, pacman_x, pacman_y, current_speed) ==
    LET xa == IF e.x < pacman_x THEN u16(e.x + current_speed) ELSE e.x
        xb == IF xa > pacman_x THEN u16(xa - current_speed) ELSE xa
        ya == IF e.y < pacman_x THEN u16(e.y + current_speed) ELSE e.y
        yb == IF ya > pacman_x THEN u16(ya - current_speed) ELSE ya
    IN [e EXCEPT !.x = IF xb <= 0 THEN 0 ELSE IF xb >= 115 THEN 115 ELSE xb,
                 !.y = IF yb <= 0 THEN 0 ELSE IF yb >= 144 THEN 144 ELSE yb]

\* the four moves and the clamp of one enemy in moveEnemies
EnemyStep(e, pacman_x, pacman_y, current_speed) ==
    LET xa == IF e.x < pacman_x THEN u16(e.x + current_speed) ELSE e.x
        xb == IF xa > pacman_x THEN u16(xa - current_speed) ELSE xa
        ya == IF e.y < pacman_y THEN u16(e.y + current_speed) ELSE e.y
        yb == IF ya > pacman_y THEN u16(ya - current_speed) ELSE ya
    IN [e EXCEPT !.x = IF xb <= 0 THEN 0 ELSE IF xb >= 115 THEN 115 ELSE xb,
                 !.y = IF yb <= 0 THEN 0 ELSE IF yb >= 144 THEN 144 ELSE yb]

\* moveEnemies with the delay of level 1 on every level
moveEnemies_SameDelay(s) ==
    IF s.game_won # 0 THEN s
    ELSE IF U32Lt(U32Sub(s.milliseconds, s.pumpkin_move_delay), U32Of(30))
         THEN s
         ELSE LET r == [s EXCEPT
                 !.pumpkin_move_delay = s.milliseconds,
                 !.enemies = [i \in 0..(MAX_ENEMIES - 1) |->
                     IF s.enemies[i].active # 0
                     THEN EnemyStep(s.enemies[i], s.x, s.y,
                              IF s.current_level = 2
                              THEN (IF U32Odd(s.milliseconds) = 0 THEN 1 ELSE 0)
                              ELSE s.enemies[i].speed)
                     ELSE s.enemies[i]]]
              IN Logged(r, "moveEnemies", EnemyView(s), EnemyView(r))

\* moveEnemies without the test of the active flag
moveEnemies_IgnoresActive(s) ==
    IF s.game_won # 0 THEN s
    ELSE LET delay_time == IF s.current_level = 1 THEN 30 ELSE 65 IN
         IF U32Lt(U32Sub(s.milliseconds, s.pumpkin_move_delay), U32Of(delay_time))
         THEN s
         ELSE LET r == [s EXCEPT
                 !.pumpkin_move_delay = s.milliseconds,
                 !.enemies = [i \in 0..(MAX_ENEMIES - 1) |->
                     EnemyStep(s.enemies[i], s.x, s.y,
                         IF s.current_level = 2
                         THEN (IF U32Odd(s.milliseconds) = 0 THEN 1 ELSE 0)
                         ELSE 1)]]
              IN Logged(r, "moveEnemies", EnemyView(s), EnemyView(r))

\* moveEnemies with enemies[i].speed on every level
moveEnemies_FullSpeed(s) ==
    IF s.game_won # 0 THEN s
    ELSE LET delay_time == IF s.current_level = 1 THEN 30 ELSE 65 IN
         IF U32Lt(U32Sub(s.milliseconds, s.pumpkin_move_delay), U32Of(delay_time))
         THEN s
         ELSE LET r == [s EXCEPT
                 !.pumpkin_move_delay = s.milliseconds,
                 !.enemies = [i \in 0..(MAX_ENEMIES - 1) |->
                     IF s.enemies[i].active # 0
                     THEN EnemyStep(s.enemies[i], s.x, s.y, s.enemies[i].speed)
                     ELSE s.enemies[i]]]
              IN Logged(r, "moveEnemies", EnemyView(s), EnemyView(r))

\* moveEnemies(x, y)
moveEnemies(s) ==
    IF s.game_won # 0 THEN s
    ELSE LET delay_time == IF s.current_level = 1 THEN 30 ELSE 65 IN
         IF U32Lt(U32Sub(s.milliseconds, s.pumpkin_move_delay), U32Of(delay_time))
         THEN s
         ELSE LET r == [s EXCEPT
                 !.pumpkin_move_delay = s.milliseconds,
                 !.enemies = [i \in 0..(MAX_ENEMIES - 1) |->
                     IF s.enemies[i].active # 0
                     THEN EnemyStep(s.enemies[i], s.x, s.y,
                              IF s.current_level = 2
                              THEN (IF U32Odd(s.milliseconds) = 0 THEN 1 ELSE 0)
                              ELSE s.enemies[i].speed)
                     ELSE s.enemies[i]]]
              IN Logged(r, "moveEnemies", EnemyView(s), EnemyView(r))

\* checkEnemyCollision(x, y)
checkEnemyCollision(s) ==
    IF \E i \in 0..(MAX_ENEMIES - 1) :
           /\ s.enemies[i].active # 0
           /\ isInside(s.enemies[i].x, s.enemies[i].y, 12, 16, s.x, s.y) = 1
    THEN 1 ELSE 0

(* ------------------------------------------------------------------ *)
(* The game: one pass of the main loop                                 *)
(* ------------------------------------------------------------------ *)
\* The buttons read from GPIOx->IDR (pressed = bit low): right is PB4,
\* left PB5, down PA11, up PA8.  One pass sees one sample of the buttons
\* and of the serial character ("" when none is available).
Buttons == {"right", "left", "down", "up"}

Inputs ==
    [pressed : {{}} \cup {{b} : b \in Buttons}, serial_char : {""}]
        \cup {[pressed |-> {}, serial_char |-> "r"],
              [pressed |-> {"down", "up"}, serial_char |-> ""]}

\* the game state a reset is meant to set
GameView(s) ==
    [in_menu |-> s.in_menu, current_level |-> s.current_level,
     game_over |-> s.game_over, game_won |-> s.game_won,
     game_over_selection |-> s.game_over_selection,
     selected_option |-> s.selected_option,
     heart_eaten |-> s.heart_eaten, heart_x |-> s.heart_x, heart_y |-> s.heart_y,
     x |-> s.x, y |-> s.y, enemies |-> s.enemies]

\* case 0 of the menu switch: Start New Game (lines 865-888)
StartGame(s) ==
    LET a == initEnemies(drawBackground([s EXCEPT !.in_menu = 0, !.menu_drawn = 0]))
        b == [a EXCEPT !.game_over = 0, !.game_won = 0,
                       !.heart_eaten[1] = 0, !.heart_eaten[2] = 0,
                       !.x = 50, !.y = 50,
                       !.heart_x[1] = 40, !.heart_y[1] = 80,
                       !.heart_x[2] = 60, !.heart_y[2] = 90]
    IN Logged(b, "reset", GameView(s), GameView(b))

\* the menu branch with the enemy update run before the menu is handled
MenuPass_MovesEnemies(s, inp) ==
    LET m ==
            LET a == [s EXCEPT !.menu_drawn = 1]
                b == IF "down" \in inp.pressed
                     THEN [Delay(a, 200) EXCEPT !.selected_option = (@ + 1) % 3]
                     ELSE a
                c == IF "up" \in inp.pressed
                     THEN [Delay(b, 200) EXCEPT !.selected_option = (@ - 1 + 3) % 3]
                     ELSE b
            IN IF "right" \in inp.pressed
               THEN LET d == Delay(c, 200) IN
                    IF d.selected_option = 0 THEN StartGame(d)
                    ELSE IF d.selected_option = 1 THEN [d EXCEPT !.pc = "wait_controls"]
                    ELSE [d EXCEPT !.pc = "wait_credits"]
               ELSE c
    IN moveEnemies(m)

\* the menu branch of the loop (lines 839-906), up to its continue or to
\* the wait loop of an informational screen
MenuPass(s, inp) ==
    LET a == [s EXCEPT !.menu_drawn = 1]
        b == IF "down" \in inp.pressed
             THEN [Delay(a, 200) EXCEPT !.selected_option = (@ + 1) % 3]
             ELSE a
        c == IF "up" \in inp.pressed
             THEN [Delay(b, 200) EXCEPT !.selected_option = (@ - 1 + 3) % 3]
             ELSE b
    IN IF "right" \in inp.pressed
       THEN LET d == Delay(c, 200) IN
            IF d.selected_option = 0 THEN StartGame(d)
            ELSE IF d.selected_option = 1 THEN [d EXCEPT !.pc = "wait_controls"]
            ELSE [d EXCEPT !.pc = "wait_credits"]
       ELSE c

\* lines 892-895 and 899-902: the loop runs while the bit of PB4 is not 0,
\* that is until the button is read pressed; then delay(200) and drawMenu
InfoWaitPass(s, pressed) ==
    LET r == IF pressed THEN [Delay(s, 200) EXCEPT !.pc = "loop"] ELSE s
    IN Logged(r, "infoWait", [pressed |-> pressed, pc |-> s.pc], GameView(r))

\* size of a wall block in pixels
WALL_SIZE == 8

\* maze[20][16]: seventeen rows are written out, the last three are zero
maze ==
    << <<1, 1, 1, 1, 1, 1, 1, 1, 1, 1, 1, 1, 1, 1, 1, 1>>,
       <<1, 0, 0, 0, 0, 0, 1, 0, 0, 0, 0, 0, 0, 0, 0, 1>>,
       <<1, 0, 1, 1, 1, 0, 1, 0, 1, 1, 1, 1, 1, 1, 0, 1>>,
       <<1, 0, 0, 0, 1, 0, 0, 0, 0, 0, 1, 0, 0, 0, 0, 1>>,
       <<1, 1, 1, 0, 1, 1, 1, 1, 1, 0, 1, 0, 1, 1, 0, 1>>,
       <<1, 0, 0, 0, 0, 0, 0, 0, 1, 0, 0, 0, 1, 0, 0, 1>>,
       <<1, 0, 1, 1, 1, 1, 1, 0, 1, 1, 1, 1, 1, 0, 1, 1>>,
       <<1, 0, 0, 0, 0, 0, 1, 0, 0, 0, 0, 0, 0, 0, 0, 1>>,
       <<1, 1, 1, 1, 1, 0, 1, 1, 1, 1, 1, 0, 1, 1, 0, 1>>,
       <<1, 0, 0, 0, 0, 0, 1, 0, 0, 0, 0, 0, 1, 0, 0, 1>>,
       <<1, 0, 1, 1, 1, 1, 1, 0, 1, 1, 1, 1, 1, 0, 1, 1>>,
       <<1, 0, 0, 0, 0, 0, 0, 0, 1, 0, 0, 0, 0, 0, 0, 1>>,
       <<1, 0, 1, 1, 1, 1, 1, 1, 1, 0, 1, 1, 1, 1, 0, 1>>,
       <<1, 0, 0, 0, 0, 0, 0, 0, 0, 0, 0, 0, 0, 1, 0, 1>>,
       <<1, 0, 1, 1, 1, 1, 1, 1, 1, 1, 1, 1, 0, 1, 0, 1>>,
       <<1, 0, 0, 0, 0, 0, 0, 0, 0, 0, 0, 0, 0, 0, 0, 1>>,
       <<1, 1, 1, 1, 1, 1, 1, 1, 1, 1, 1, 1, 1, 1, 1, 1>>,
       <<0, 0, 0, 0, 0, 0, 0, 0, 0, 0, 0, 0, 0, 0, 0, 0>>,
       <<0, 0, 0, 0, 0, 0, 0, 0, 0, 0, 0, 0, 0, 0, 0, 0>>,
       <<0, 0, 0, 0, 0, 0, 0, 0, 0, 0, 0, 0, 0, 0, 0, 0>> >>

\* maze_level2[20][16], the layout drawBackground draws on level 2
maze_level2 ==
    << <<1, 1, 1, 1, 1, 1, 1, 1, 1, 1, 1, 1, 1, 1, 1, 1>>,
       <<1, 0, 0, 0, 1, 0, 0, 0, 0, 0, 1, 0, 0, 0, 0, 1>>,
       <<1, 0, 1, 0, 1, 0, 1, 1, 1, 0, 1, 0, 1, 1, 0, 1>>,
       <<1, 0, 1, 0, 0, 0, 0, 0, 1, 0, 0, 0, 0, 1, 0, 1>>,
       <<1, 0, 1, 1, 1, 1, 1, 0, 1, 1, 1, 1, 0, 1, 0, 1>>,
       <<1, 0, 0, 0, 0, 0, 1, 0, 0, 0, 0, 0, 0, 0, 0, 1>>,
       <<1, 1, 1, 1, 1, 0, 1, 1, 1, 0, 1, 1, 1, 1, 0, 1>>,
       <<1, 0, 0, 0, 1, 0, 0, 0, 1, 0, 1, 0, 0, 0, 0, 1>>,
       <<1, 0, 1, 0, 1, 1, 1, 0, 1, 0, 1, 0, 1, 1, 1, 1>>,
       <<1, 0, 1, 0, 0, 0, 0, 0, 0, 0, 1, 0, 0, 0, 0, 1>>,
       <<1, 0, 1, 1, 1, 1, 1, 1, 1, 1, 1, 1, 1, 1, 0, 1>>,
       <<1, 0, 0, 0, 0, 0, 1, 0, 0, 0, 0, 0, 0, 1, 0, 1>>,
       <<1, 0, 1, 1, 1, 0, 1, 0, 1, 1, 1, 1, 0, 1, 0, 1>>,
       <<1, 0, 0, 0, 1, 0, 0, 0, 1, 0, 0, 0, 0, 0, 0, 1>>,
       <<1, 1, 1, 0, 1, 1, 1, 1, 1, 0, 1, 1, 1, 1, 0, 1>>,
       <<1, 0, 0, 0, 0, 0, 0, 0, 0, 0, 0, 0, 0, 0, 0, 1>>,
       <<1, 1, 1, 1, 1, 1, 1, 1, 1, 1, 1, 1, 1, 1, 1, 1>>,
       <<0, 0, 0, 0, 0, 0, 0, 0, 0, 0, 0, 0, 0, 0, 0, 0>>,
       <<0, 0, 0, 0, 0, 0, 0, 0, 0, 0, 0, 0, 0, 0, 0, 0>>,
       <<0, 0, 0, 0, 0, 0, 0, 0, 0, 0, 0, 0, 0, 0, 0, 0>> >>

\* isWallCollision(x, y), its parameters named wx and wy here: the layout
\* read is maze on every level
isWallCollision(wx, wy) ==
    LET gridX == wx \div WALL_SIZE
        gridY == wy \div WALL_SIZE
    IN IF gridX >= 0 /\ gridX < 16 /\ gridY >= 0 /\ gridY < 20
       THEN (IF maze[gridY + 1][gridX + 1] = 1 THEN 1 ELSE 0)
       ELSE 1

\* the player held back by the walls of maze: a move is made only when
\* isWallCollision finds no wall at the destination
PlayerMove_StopsAtWalls(s, inp) ==
    IF s.game_over = 0 /\ s.game_won = 0
    THEN LET a == IF ("right" \in inp.pressed \/ inp.serial_char = "r") /\ s.x < 115
                     /\ isWallCollision(s.x + 1, s.y) = 0
                  THEN [s EXCEPT !.x = u16(@ + 1), !.hmoved = 1] ELSE s
             b == IF "left" \in inp.pressed /\ a.x > 2
                     /\ isWallCollision(a.x - 1, a.y) = 0
                  THEN [a EXCEPT !.x = u16(@ - 1), !.hmoved = 1] ELSE a
             c == IF "down" \in inp.pressed /\ b.y < 144
                     /\ isWallCollision(b.x, b.y + 1) = 0
                  THEN [b EXCEPT !.y = u16(@ + 1), !.vmoved = 1] ELSE b
         IN IF "up" \in inp.pressed /\ c.y > 1
               /\ isWallCollision(c.x, c.y - 1) = 0
            THEN [c EXCEPT !.y = u16(@ - 1), !.vmoved = 1] ELSE c
    ELSE s

\* lines 918-951
PlayerMove(s, inp) ==
    IF s.game_over = 0 /\ s.game_won = 0
    THEN LET a == IF ("right" \in inp.pressed \/ inp.serial_char = "r") /\ s.x < 115
                  THEN [s EXCEPT !.x = u16(@ + 1), !.hmoved = 1] ELSE s
             b == IF "left" \in inp.pressed /\ a.x > 2
                  THEN [a EXCEPT !.x = u16(@ - 1), !.hmoved = 1] ELSE a
             c == IF "down" \in inp.pressed /\ b.y < 144
                  THEN [b EXCEPT !.y = u16(@ + 1), !.vmoved = 1] ELSE b
         IN IF "up" \in inp.pressed /\ c.y > 1
            THEN [c EXCEPT !.y = u16(@ - 1), !.vmoved = 1] ELSE c
    ELSE s

\* the collection check of heart k (lines 971-984, 987-999, 1125-1137,
\* 1140-1151)
HeartPickup(s, k) ==
    IF s.heart_eaten[k] = 0
          /\ isInside(s.heart_x[k], s.heart_y[k], 12, 16, s.x, s.y) = 1
    THEN LET a == playNote([s EXCEPT !.heart_eaten[k] = 1], 500, "main")
             b == playNote(Delay(a, 500), 0, "main")
         IN checkWinCondition(b)
    ELSE s

\* lines 954-1000: hearts 1 and 2 are checked only when the player moved
Pickups12(s) ==
    IF s.vmoved # 0 \/ s.hmoved # 0
    THEN HeartPickup(HeartPickup(s, 1), 2)
    ELSE s

\* the boundary checks of x without the check against 115
HeartClampX_NoUpper(v) == IF v <= 0 THEN 0 ELSE v

\* the boundary checks of a heart's x and y after a drift step
HeartClampX(v) ==
    LET a == IF v <= 0 THEN 0 ELSE v IN IF a >= 115 THEN 115 ELSE a

HeartClampY(v) ==
    LET a == IF v <= 0 THEN 0 ELSE v IN IF a >= 144 THEN 144 ELSE a

\* what the drift step reads and writes of the hearts
HeartView(s) ==
    [heart_x |-> s.heart_x, heart_y |-> s.heart_y,
     heart_direction_x |-> s.heart_direction_x,
     heart_direction_y |-> s.heart_direction_y,
     heart_eaten |-> s.heart_eaten, current_level |-> s.current_level,
     game_won |-> s.game_won, game_over |-> s.game_over,
     milliseconds |-> s.milliseconds, heart_move_delay |-> s.heart_move_delay]

\* a drift step that moves heart k whether it is eaten or not
DriftHeart_Always(s, k, r) ==
    [s EXCEPT !.heart_direction_x[k] = r[1],
              !.heart_direction_y[k] = r[2],
              !.heart_x[k] = HeartClampX(u16(@ + 3 * r[1])),
              !.heart_y[k] = HeartClampY(u16(@ + 3 * r[2]))]

\* the drift step of heart k with rand() % 3 - 1 giving r[1] and r[2]
DriftHeart(s, k, r) ==
    IF s.heart_eaten[k] = 0
    THEN [s EXCEPT !.heart_direction_x[k] = r[1],
                   !.heart_direction_y[k] = r[2],
                   !.heart_x[k] = HeartClampX(u16(@ + 3 * r[1])),
                   !.heart_y[k] = HeartClampY(u16(@ + 3 * r[2]))]
    ELSE s

\* the gate as an absolute comparison: milliseconds >= heart_move_delay + 400
DriftGate_AbsoluteCompare(s) ==
    /\ ~U32Lt(s.milliseconds, U32Add(s.heart_move_delay, U32Of(400)))
    /\ s.game_over = 0

\* the gate without the test of game_over
DriftGate_IgnoresGameOver(s) ==
    ~U32Lt(U32Sub(s.milliseconds, s.heart_move_delay), U32Of(400))

\* milliseconds - heart_move_delay >= 400 && !game_over
DriftGate(s) ==
    /\ ~U32Lt(U32Sub(s.milliseconds, s.heart_move_delay), U32Of(400))
    /\ s.game_over = 0

\* the game-over branch without the loop that deactivates the enemies
GameOverEntry_KeepsEnemies(s) ==
    [s EXCEPT !.game_over = 1,
              !.show_game_over_menu = 1,
              !.game_over_selection = 0]

\* lines 1090-1115
GameOverEntry(s) ==
    [s EXCEPT !.game_over = 1,
              !.enemies = [i \in 0..(MAX_ENEMIES - 1) |-> [s.enemies[i] EXCEPT !.active = 0]],
              !.show_game_over_menu = 1,
              !.game_over_selection = 0]

\* lines 1008-1119: the drift of the hearts, the enemy collision check
\* inside the same block, and the reset of the drift timer
HeartsAndCollision(s, rnd) ==
    IF DriftGate(s)
    THEN LET a == DriftHeart(DriftHeart(s, 1, rnd[1]), 2, rnd[2])
             b == IF a.current_level = 2
                  THEN DriftHeart(DriftHeart(a, 3, rnd[3]), 4, rnd[4])
                  ELSE a
             c == IF b.game_won = 0 /\ checkEnemyCollision(b) = 1
                  THEN GameOverEntry(b) ELSE b
         IN Logged([c EXCEPT !.heart_move_delay = c.milliseconds, !.drifts = @ + 1],
                   "drift", HeartView(s), HeartView(b))
    ELSE s

\* lines 1123-1152
Pickups34(s) ==
    IF s.current_level = 2
    THEN HeartPickup(HeartPickup(s, 3), 4)
    ELSE s

\* Play Again with the resets of Start Game: hearts 3 and 4 left as eaten
PlayAgain_KeepsHearts34(s) ==
    LET a == initEnemies(drawBackground(
                 [s EXCEPT !.current_level = 1, !.game_over = 0, !.game_won = 0,
                           !.heart_eaten[1] = 0, !.heart_eaten[2] = 0,
                           !.show_game_over_menu = 0,
                           !.x = 50, !.y = 50,
                           !.heart_x[1] = 40, !.heart_y[1] = 80,
                           !.heart_x[2] = 60, !.heart_y[2] = 90]))
    IN Logged(a, "reset", GameView(s), GameView(a))

\* "Play Again" (lines 1174-1201)
PlayAgain(s) ==
    LET a == initEnemies(drawBackground(
                 [s EXCEPT !.current_level = 1, !.game_over = 0, !.game_won = 0,
                           !.heart_eaten = <<0, 0, 0, 0>>,
                           !.show_game_over_menu = 0,
                           !.x = 50, !.y = 50,
                           !.heart_x[1] = 40, !.heart_y[1] = 80,
                           !.heart_x[2] = 60, !.heart_y[2] = 90]))
    IN Logged(a, "reset", GameView(s), GameView(a))

\* a return to the menu that also clears the eaten flags
ToMainMenu_ClearsEaten(s) ==
    [s EXCEPT !.in_menu = 1, !.show_game_over_menu = 0, !.current_level = 1,
              !.heart_eaten = <<0, 0, 0, 0>>]

\* "Main Menu" (lines 1203-1207)
ToMainMenu(s) ==
    [s EXCEPT !.in_menu = 1, !.show_game_over_menu = 0, !.current_level = 1]

\* the selection counted up instead of toggled
Toggle_CountsUp(v) == v + 1

\* game_over_selection = !game_over_selection
Toggle(v) == IF v = 0 THEN 1 ELSE 0

\* lines 1157-1209
ResultMenu(s, inp) ==
    IF s.game_over # 0 \/ s.game_won # 0
    THEN LET a == IF "down" \in inp.pressed
                  THEN [Delay(s, 200) EXCEPT !.game_over_selection = Toggle(@)]
                  ELSE s
             b == IF "up" \in inp.pressed
                  THEN [Delay(a, 200) EXCEPT !.game_over_selection = Toggle(@)]
                  ELSE a
             r == IF "right" \in inp.pressed
                  THEN LET c == Delay(b, 200) IN
                       IF c.game_over_selection = 0 THEN PlayAgain(c) ELSE ToMainMenu(c)
                  ELSE b
         IN Logged(r, "resultMenu", [inp |-> inp, game |-> GameView(s)], GameView(r))
    ELSE s

\* what the player movement reads and writes
PlayerView(s) ==
    [x |-> s.x, y |-> s.y, game_over |-> s.game_over, game_won |-> s.game_won,
     current_level |-> s.current_level]

\* the player movement as a call recorded in the log
MovePlayer(s, inp) ==
    CHOOSE r \in {Logged(c, "playerMove", [inp |-> inp, game |-> PlayerView(b)],
                          PlayerView(c)) : <<b, c>> \in {<<t, PlayerMove(t, inp)>> : t \in {s}}} : TRUE

\* lines 909-1000: from the reset of the movement flags to the checks of
\* hearts 1 and 2
BeforeDrift(s, inp) ==
    LET a == checkWinCondition([s EXCEPT !.hmoved = 0, !.vmoved = 0])
        b == IF a.game_won = 0 THEN moveEnemies(a) ELSE a
    IN Pickups12(MovePlayer(b, inp))

\* lines 1123-1211: from the checks of hearts 3 and 4 to delay(20)
AfterDrift(s, inp) == Delay(ResultMenu(Pickups34(s), inp), 20)

\* the directions rand() can give heart k in the drift step of s; a heart
\* that does not drift draws nothing
Rand(s, k) ==
    IF DriftGate(s) /\ s.heart_eaten[k] = 0 /\ (k <= 2 \/ s.current_level = 2)
    THEN {-1, 0, 1} \X {-1, 0, 1}
    ELSE {<<0, 0>>}

\* a foreground step: an empty call log, no interrupt since
Foreground(s) == [Begin(s) EXCEPT !.slack = 0, !.steps = @ + 1]

\* one pass of while (1) in the menu
MenuIteration ==
    /\ pc = "loop" /\ in_menu # 0
    /\ steps < MaxSteps
    /\ \E inp \in Inputs : Commit(MenuPass(Foreground(Cur), inp))

\* the wait loop of the Controls or Credits screen reads the button once
InfoWait ==
    /\ pc \in {"wait_controls", "wait_credits"}
    /\ steps < MaxSteps
    /\ \E pressed \in BOOLEAN : Commit(InfoWaitPass(Foreground(Cur), pressed))

\* one pass of while (1) out of the menu
PlayIteration ==
    /\ pc = "loop" /\ in_menu = 0
    /\ steps < MaxSteps /\ drifts < MaxDrifts
    /\ \E inp \in Inputs :
          \E s \in {BeforeDrift(Foreground(Cur), inp)} :
          \E r1 \in Rand(s, 1), r2 \in Rand(s, 2), r3 \in Rand(s, 3), r4 \in Rand(s, 4) :
              Commit(AfterDrift(HeartsAndCollision(s, <<r1, r2, r3, r4>>), inp))

\* the tick interrupt, taken between two foreground steps
Tick ==
    /\ pc \in {"loop", "wait_controls", "wait_credits"}
    /\ slack < MaxSlack
    /\ steps < MaxSteps /\ drifts < MaxDrifts
    /\ Commit([SysTick_Handler(Begin(Cur)) EXCEPT !.slack = @ + 1])

(* ------------------------------------------------------------------ *)
(* The game: states a run starts from                                  *)
(* ------------------------------------------------------------------ *)
\* main up to the loop (lines 805-829): enemies initialised, the startup
\* tune played (1500 ticks), the background tune configured, in the menu
ColdStart ==
    [WithBackgroundTune(initEnemies(PowerOn)) EXCEPT !.milliseconds = U32Of(1500)]

\* an enemy record
En(ex, ey, a) == [x |-> ex, y |-> ey, active |-> a, speed |-> 1]

\* s at clock value clk, since_drift ticks after the last drift step and
\* since_pass ticks after the last enemy pass
At(s, clk, since_drift, since_pass) ==
    [s EXCEPT !.milliseconds = clk,
              !.heart_move_delay = U32Sub(clk, U32Of(since_drift)),
              !.pumpkin_move_delay = U32Sub(clk, U32Of(since_pass))]

\* level 1 in play after Start Game
Level1 == [ColdStart EXCEPT !.in_menu = 0]

\* level 2 in play: after the level transition the three enemies are active
Level2 ==
    [ColdStart EXCEPT !.in_menu = 0, !.current_level = 2, !.hearts_collected = 2,
                      !.enemies[1] = En(100, 10, 1), !.enemies[2] = En(60, 140, 1)]

\* clock values of the scenarios: after the startup tune, and 10 ticks
\* before the counter wraps
EarlyClock == U32Of(2000)
LateClock == <<U16 - 1, U16 - 10>>

\* won: level 2 with its four hearts eaten, the enemies still active
AfterWin ==
    At([Level2 EXCEPT !.game_won = 1, !.x = 80, !.y = 75,
                      !.heart_eaten = <<1, 1, 1, 1>>, !.hearts_collected = 4,
                      !.enemies[0] = En(20, 20, 1)],
       EarlyClock, 100, 65)

\* the menu reached from the win screen: down to Main Menu, then confirm
MenuAfterWin ==
    ResultMenu(ResultMenu(AfterWin, [pressed |-> {"down"}, serial_char |-> ""]),
               [pressed |-> {"right"}, serial_char |-> ""])

\* States of the running game that runs start from, each one reached by
\* the program: the player is steered by the buttons, the enemies follow
\* the player, and the hearts drift by steps of 3 in any direction.
Scenarios ==
    {   \* power on: the menu, Start Game highlighted
        ColdStart,
        \* the menu again after a game that was won
        MenuAfterWin,
        \* the menu after one press of the down button: Controls highlighted
        MenuPass(ColdStart, [pressed |-> {"down"}, serial_char |-> ""]),
        \* level 1: the player left of heart 1, heart 2 still to eat
        At([Level1 EXCEPT !.x = 39, !.y = 85, !.enemies[0] = En(20, 60, 1)],
           EarlyClock, 100, 10),
        \* the same with heart 2 eaten: heart 1 completes level 1
        At([Level1 EXCEPT !.x = 39, !.y = 85, !.enemies[0] = En(20, 60, 1),
                          !.heart_eaten = <<0, 1, 0, 0>>, !.hearts_collected = 1],
           EarlyClock, 100, 10),
        \* level 1: the enemy one pixel from reaching the player, the enemy
        \* pass due, the drift step not due
        At([Level1 EXCEPT !.enemies[0] = En(37, 50, 1)], LateClock, 100, 30),
        \* the same with the drift step due, heart 2 eaten
        At([Level1 EXCEPT !.enemies[0] = En(37, 50, 1),
                          !.heart_eaten = <<0, 1, 0, 0>>, !.hearts_collected = 1],
           EarlyClock, 400, 30),
        \* level 1: heart 1 drifted to the top left, heart 2 eaten at the
        \* bottom right, the drift step due
        At([Level1 EXCEPT !.heart_x = <<1, 115, 80, 30>>,
                          !.heart_y = <<2, 144, 70, 100>>,
                          !.heart_eaten = <<0, 1, 0, 0>>, !.hearts_collected = 1,
                          !.enemies[0] = En(30, 30, 1)],
           LateClock, 400, 10),
        \* level 1: heart 2 drifted to the bottom right, heart 1 eaten
        At([Level1 EXCEPT !.heart_x = <<40, 113, 80, 30>>,
                          !.heart_y = <<80, 143, 70, 100>>,
                          !.heart_eaten = <<1, 0, 0, 0>>, !.hearts_collected = 1,
                          !.enemies[0] = En(30, 30, 1)],
           EarlyClock, 400, 10),
        \* level 2: hearts 1, 2 and 4 eaten, the player left of heart 3, an
        \* enemy on the player, the drift step due
        At([Level2 EXCEPT !.x = 79, !.y = 75,
                          !.heart_eaten = <<1, 1, 0, 1>>, !.hearts_collected = 3,
                          !.enemies[0] = En(75, 70, 1)],
           EarlyClock, 400, 10),
        \* level 2: the same with the enemies away and the drift step not due
        At([Level2 EXCEPT !.x = 79, !.y = 75,
                          !.heart_eaten = <<1, 1, 0, 1>>, !.hearts_collected = 3,
                          !.enemies[0] = En(20, 20, 1)],
           EarlyClock, 100, 65),
        \* level 2 in a game started after an earlier game was left through
        \* Main Menu (game_over_selection 1): the last heart one step away
        At([Level2 EXCEPT !.x = 79, !.y = 75, !.game_over_selection = 1,
                          !.heart_eaten = <<1, 1, 0, 1>>, !.hearts_collected = 3,
                          !.enemies[0] = En(20, 20, 1)],
           EarlyClock, 100, 10),
        \* level 2: 40 ticks after an enemy pass, more than the delay of
        \* level 1 and less than that of level 2
        At([Level2 EXCEPT !.x = 60, !.y = 40, !.enemies[0] = En(20, 20, 1)],
           EarlyClock, 100, 40),
        \* level 2: hearts 2, 3 and 4 eaten, the player left of heart 1, the
        \* drift step due
        At([Level2 EXCEPT !.x = 39, !.y = 85,
                          !.heart_eaten = <<0, 1, 1, 1>>, !.hearts_collected = 3,
                          !.enemies[0] = En(20, 20, 1)],
           EarlyClock, 400, 10),
        \* game over on level 1: the enemies switched off, the result menu
        At([Level1 EXCEPT !.game_over = 1, !.show_game_over_menu = 1,
                          !.enemies[0] = En(38, 50, 0)],
           EarlyClock, 20, 10),
        \* level 1 after a drift step that brought heart 1 from (40,80) to
        \* (37,80), over the player standing at (39,85)
        At([Level1 EXCEPT !.x = 39, !.y = 85, !.enemies[0] = En(100, 140, 1),
                          !.heart_x[1] = 37, !.heart_direction_x[1] = -1,
                          !.heart_direction_y[1] = 0],
           EarlyClock, 20, 10),
        \* the player in the upper left and in the lower right corner of the
        \* range the movement allows
        At([Level1 EXCEPT !.x = 2, !.y = 1, !.enemies[0] = En(60, 60, 1)],
           EarlyClock, 10, 10),
        At([Level1 EXCEPT !.x = 115, !.y = 144, !.enemies[0] = En(60, 60, 1)],
           EarlyClock, 10, 10),
        \* won: level 2 with its four hearts eaten, the enemies still active
        At([Level2 EXCEPT !.game_won = 1, !.x = 80, !.y = 75,
                          !.heart_eaten = <<1, 1, 1, 1>>, !.hearts_collected = 4,
                          !.enemies[0] = En(20, 20, 1)],
           EarlyClock, 100, 65)
    }

Init == \E s \in Scenarios : InitAs(s)

Next == MenuIteration \/ InfoWait \/ PlayIteration \/ Tick

Spec == Init /\ [][Next]_vars

(* ------------------------------------------------------------------ *)
(* The game: properties                                                *)
(* ------------------------------------------------------------------ *)
\* the game is in play: out of the menu, neither lost nor won
Playing == in_menu = 0 /\ game_over = 0 /\ game_won = 0

\* some active enemy's 12x16 box contains the player's position
EnemyOnPlayer ==
    \E i \in 0..(MAX_ENEMIES - 1) :
        /\ enemies[i].active # 0
        /\ isInside(enemies[i].x, enemies[i].y, 12, 16, x, y) = 1

\* the calls of checkWinCondition made by the last foreground step
WinChecks == {i \in 1..Len(calls) : calls[i].fn = "checkWinCondition"}

\* the enemies as initEnemies leaves them on level 2
EnemiesReinitialised(e) ==
    /\ e[0] = [x |-> 10, y |-> 10, active |-> 1, speed |-> 1]
    /\ e[1] = [x |-> 100, y |-> 10, active |-> 1, speed |-> 1]
    /\ e[2] = [x |-> 60, y |-> 140, active |-> 1, speed |-> 1]

\* C1: in every reachable state game_over and game_won are never both
\* set; GameOver and Win exclude each other.
C1_OverAndWonExclusive == ~(game_over # 0 /\ game_won # 0)

\* C2: a pass of the main loop that starts while Playing and ends with an
\* active enemy's box containing the player has set game_over; the player
\* is never inside an active enemy's box at the end of a pass while the
\* game is still Playing.
C2_CollisionEndsEveryPass ==
    [][(Playing /\ steps' = steps + 1) => ~(Playing' /\ EnemyOnPlayer')]_vars

\* C3: a call of checkWinCondition on level 1 with fewer than two of
\* hearts 1 and 2 eaten leaves current_level = 1 and every eaten flag as
\* it was; with both eaten it sets current_level = 2, clears heart1_eaten
\* and heart2_eaten, reinitialises the enemies and leaves game_won = 0.
C3_LevelOneNeedsTwoHearts ==
    \A i \in WinChecks :
        LET pre == calls[i].pre
            post == calls[i].post
        IN pre.current_level = 1 =>
             IF pre.heart_eaten[1] + pre.heart_eaten[2] < 2
             THEN /\ post.current_level = 1
                  /\ post.heart_eaten = pre.heart_eaten
             ELSE /\ post.current_level = 2
                  /\ post.heart_eaten[1] = 0 /\ post.heart_eaten[2] = 0
                  /\ EnemiesReinitialised(post.enemies)
                  /\ post.game_won = 0

\* a pass in which checkWinCondition found both hearts of level 1 eaten
\* and moved to level 2, after a call that found only one eaten
C3_Witness ==
    /\ \E i \in WinChecks :
          /\ calls[i].pre.current_level = 1
          /\ calls[i].pre.heart_eaten[1] + calls[i].pre.heart_eaten[2] = 1
          /\ calls[i].post.current_level = 1
    /\ \E i \in WinChecks :
          /\ calls[i].pre.current_level = 1
          /\ calls[i].pre.heart_eaten[1] + calls[i].pre.heart_eaten[2] = 2
          /\ calls[i].post.current_level = 2

\* C4: when the step from level 1 to level 2 completes, the player's
\* position held by the main loop is the level-start position (50,50).
C4_TransitionResetsPlayer ==
    [][(current_level = 1 /\ current_level' = 2) => (x' = 50 /\ y' = 50)]_vars

\* C10: in every reachable state each heart's position satisfies
\* 0 <= x <= 115 and 0 <= y <= 144.
C10_HeartsOnScreen ==
    \A k \in 1..4 : heart_x[k] \in 0..115 /\ heart_y[k] \in 0..144

\* a drift step that took heart 2 from (113,143) past the right and
\* bottom limits and was clamped to them
C10_Witness ==
    /\ drifts >= 1
    /\ heart_eaten[2] = 0
    /\ heart_direction_x[2] = 1 /\ heart_direction_y[2] = 1
    /\ heart_x[2] = 115 /\ heart_y[2] = 144

\* the drift steps made by the last foreground step
DriftSteps == {i \in 1..Len(calls) : calls[i].fn = "drift"}

\* C11: a drift step leaves unchanged the position and the direction of
\* every heart whose eaten flag is set at that step.
C11_DriftLeavesEatenHearts ==
    \A i \in DriftSteps : \A k \in 1..4 :
        calls[i].pre.heart_eaten[k] # 0 =>
            /\ calls[i].post.heart_x[k] = calls[i].pre.heart_x[k]
            /\ calls[i].post.heart_y[k] = calls[i].pre.heart_y[k]
            /\ calls[i].post.heart_direction_x[k] = calls[i].pre.heart_direction_x[k]
            /\ calls[i].post.heart_direction_y[k] = calls[i].pre.heart_direction_y[k]

\* a drift step on level 2 with hearts 1, 2 and 4 eaten that moved heart 3
C11_Witness ==
    \E i \in DriftSteps :
        /\ calls[i].pre.current_level = 2
        /\ calls[i].pre.heart_eaten = <<1, 1, 0, 1>>
        /\ calls[i].post.heart_x[3] # calls[i].pre.heart_x[3]
        /\ calls[i].post.heart_y[3] # calls[i].pre.heart_y[3]

\* the resets (Start Game, Play Again) made by the last foreground step
Resets == {i \in 1..Len(calls) : calls[i].fn = "reset"}

\* the last foreground step took the game from level 1 to level 2
LevelUps ==
    {i \in WinChecks : calls[i].pre.current_level = 1 /\ calls[i].post.current_level = 2}

\* heart k keeps its eaten flag and its position over a step
HeartKept(k) ==
    heart_eaten'[k] # 0 /\ heart_x'[k] = heart_x[k] /\ heart_y'[k] = heart_y[k]

\* C12: once a heart is marked eaten it stays eaten and where it is until
\* a full game reset (Start Game or Play Again); no other operation, the
\* level transition included, makes it move or reappear.
C12_EatenUntilFullReset ==
    [][\A k \in 1..4 : (heart_eaten[k] # 0 /\ Resets' = {}) => HeartKept(k)]_vars

\* C12 as amended: an eaten heart stays eaten and where it is until a full
\* game reset or the step from level 1 to level 2, which clears the flags.
C12_EatenUntilResetOrLevelUp ==
    [][\A k \in 1..4 :
        (heart_eaten[k] # 0 /\ Resets' = {} /\ LevelUps' = {}) => HeartKept(k)]_vars

\* heart 2 eaten on level 1 and still so after a pass whose drift step
\* moved heart 1, without reset or level change
C12_Witness ==
    /\ heart_eaten[2] # 0 /\ current_level = 1
    /\ Resets = {} /\ LevelUps = {}
    /\ \E i \in DriftSteps :
          /\ calls[i].pre.heart_eaten[2] # 0
          /\ calls[i].post.heart_x[2] = calls[i].pre.heart_x[2]
          /\ calls[i].post.heart_x[1] # calls[i].pre.heart_x[1]

\* the enemy-update passes made by the last foreground step
EnemyPasses == {i \in 1..Len(calls) : calls[i].fn = "moveEnemies"}

\* one pixel from a toward b, or a when they are equal
Toward(a, b) == IF a < b THEN a + 1 ELSE IF a > b THEN a - 1 ELSE a

\* C13: on an enemy-update pass at level 1 every active enemy's x and y
\* each move exactly one pixel toward the player's coordinate when they
\* differ and stay when equal, each axis on its own.
C13_PursuitOnePixelPerAxis ==
    \A i \in EnemyPasses :
        LET pre == calls[i].pre
            post == calls[i].post
        IN pre.current_level = 1 =>
             \A e \in 0..(MAX_ENEMIES - 1) :
                 pre.enemies[e].active # 0 =>
                     /\ post.enemies[e].x = Toward(pre.enemies[e].x, pre.x)
                     /\ post.enemies[e].y = Toward(pre.enemies[e].y, pre.y)

\* the enemy at (10,10) with the player at (50,50) moved to (11,11)
C13_Witness ==
    \E i \in EnemyPasses :
        /\ calls[i].pre.current_level = 1
        /\ calls[i].pre.x = 50 /\ calls[i].pre.y = 50
        /\ calls[i].pre.enemies[0] = [x |-> 10, y |-> 10, active |-> 1, speed |-> 1]
        /\ calls[i].post.enemies[0] = [x |-> 11, y |-> 11, active |-> 1, speed |-> 1]

\* C14: in every reachable state each enemy's position satisfies
\* 0 <= x <= 115 and 0 <= y <= 144, and an enemy-update pass leaves an
\* enemy whose active flag is 0 as it was.
C14_EnemiesOnScreenInactiveStill ==
    /\ \A e \in 0..(MAX_ENEMIES - 1) :
           enemies[e].x \in 0..115 /\ enemies[e].y \in 0..144
    /\ \A i \in EnemyPasses : \A e \in 0..(MAX_ENEMIES - 1) :
           calls[i].pre.enemies[e].active = 0 =>
               calls[i].post.enemies[e] = calls[i].pre.enemies[e]

\* a pass on level 2 that moved an active enemy and left the inactive
\* enemies 3 to 5 where they were
C14_Witness ==
    \E i \in EnemyPasses :
        /\ calls[i].pre.current_level = 2
        /\ calls[i].pre.enemies[3].active = 0
        /\ calls[i].post.enemies[3] = calls[i].pre.enemies[3]
        /\ \E e \in 0..2 :
              /\ calls[i].pre.enemies[e].active # 0
              /\ calls[i].post.enemies[e] # calls[i].pre.enemies[e]

\* the delay between two enemy-update passes on a level
LevelDelay(level) == IF level = 1 THEN 30 ELSE 65

\* C15: an enemy-update pass runs only when the clock is at least the
\* level's delay (30 ticks on level 1, 65 on level 2) past
\* pumpkin_move_delay, and it sets pumpkin_move_delay to the clock; two
\* passes on a level are that many ticks apart.
C15_EnemyPassRateLimited ==
    \A i \in EnemyPasses :
        LET pre == calls[i].pre
            post == calls[i].post
        IN /\ ~U32Lt(U32Sub(pre.milliseconds, pre.pumpkin_move_delay),
                     U32Of(LevelDelay(pre.current_level)))
           /\ post.pumpkin_move_delay = pre.milliseconds
           /\ post.milliseconds = pre.milliseconds

\* a pass on level 1 exactly 30 ticks after the one before, the clock
\* ten ticks before its wrap
C15_Witness ==
    \E i \in EnemyPasses :
        /\ calls[i].pre.current_level = 1
        /\ calls[i].pre.milliseconds = LateClock
        /\ U32Sub(calls[i].pre.milliseconds, calls[i].pre.pumpkin_move_delay) = U32Of(30)
        /\ pumpkin_move_delay = LateClock

\* C16: whenever the game is Playing at level 1, exactly one enemy,
\* enemies[0], is active.
C16_OneEnemyOnLevelOne ==
    (Playing /\ current_level = 1) =>
        \A e \in 0..(MAX_ENEMIES - 1) : (enemies[e].active # 0) <=> (e = 0)

\* C17: Menu goes to Playing only on a confirm press while Start Game is
\* highlighted, and right after it current_level = 1, game_over =
\* game_won = 0, the eaten flag of each of the four hearts is 0, the player
\* is at (50,50) and hearts 1 and 2 are at (40,80) and (60,90).
C17_StartGameResetsAll ==
    [][(in_menu # 0 /\ in_menu' = 0) =>
         /\ \E i \in Resets' :
               calls'[i].pre.in_menu # 0 /\ calls'[i].pre.selected_option = 0
         /\ current_level' = 1 /\ game_over' = 0 /\ game_won' = 0
         /\ heart_eaten' = <<0, 0, 0, 0>>
         /\ x' = 50 /\ y' = 50
         /\ heart_x'[1] = 40 /\ heart_y'[1] = 80
         /\ heart_x'[2] = 60 /\ heart_y'[2] = 90]_vars

\* the confirms on Play Again made by the last foreground step
PlayAgains == {i \in Resets : calls[i].pre.in_menu = 0}

\* C18: after confirm on Play Again from GameOver or Win the game is
\* Playing with current_level = 1, game_over = game_won = 0, the four eaten
\* flags 0, the player at (50,50), hearts 1 and 2 at (40,80) and (60,90)
\* and enemy 0 active at (10,10).
C18_PlayAgainResetsAll ==
    PlayAgains # {} =>
        /\ \A i \in PlayAgains :
               calls[i].pre.game_over # 0 \/ calls[i].pre.game_won # 0
        /\ Playing /\ current_level = 1
        /\ heart_eaten = <<0, 0, 0, 0>>
        /\ x = 50 /\ y = 50
        /\ heart_x[1] = 40 /\ heart_y[1] = 80
        /\ heart_x[2] = 60 /\ heart_y[2] = 90
        /\ enemies[0].active # 0 /\ enemies[0].x = 10 /\ enemies[0].y = 10

\* Play Again confirmed in the win menu with the four hearts eaten
C18_Witness ==
    \E i \in PlayAgains :
        /\ calls[i].pre.game_won # 0
        /\ calls[i].pre.heart_eaten = <<1, 1, 1, 1>>
        /\ calls[i].pre.current_level = 2
        /\ current_level = 1 /\ heart_eaten = <<0, 0, 0, 0>>

\* the game is in GameOver or Win: out of the menu, lost or won
Over == in_menu = 0 /\ (game_over # 0 \/ game_won # 0)

\* the passes through the result menu made by the last foreground step
ResultMenus == {i \in 1..Len(calls) : calls[i].fn = "resultMenu"}

\* the selection v after the up and down presses of one sample of the buttons
AfterPresses(v, pressed) == (v + Cardinality(pressed \cap {"up", "down"})) % 2

\* C19: in GameOver or Win each up or down press toggles
\* game_over_selection between 0 and 1, a confirm press leads to Playing
\* when the selection is 0 and to the menu when it is 1, and no other
\* input leaves GameOver or Win.
C19_ResultMenuNavigation ==
    [][(Over /\ steps' = steps + 1) =>
         /\ game_over_selection' \in {0, 1}
         /\ \E i \in ResultMenus' :
               LET pressed == calls'[i].pre.inp.pressed
                   sel == AfterPresses(game_over_selection, pressed)
               IN /\ game_over_selection' = sel
                  /\ IF "right" \in pressed
                     THEN IF sel = 0 THEN Playing' ELSE in_menu' # 0
                     ELSE Over' /\ game_over' = game_over /\ game_won' = game_won]_vars

\* the game-over menu left for the main menu: the selection toggled to 1
\* by an earlier press, then confirm
C19_Witness ==
    /\ in_menu # 0 /\ game_over # 0 /\ game_over_selection = 1 /\ steps = 2
    /\ \E i \in ResultMenus :
          /\ calls[i].pre.inp.pressed = {"right"}
          /\ calls[i].pre.game.game_over # 0
          /\ calls[i].pre.game.game_over_selection = 1

\* C20: a pass of the main loop in the menu that is not the confirm on
\* Start Game leaves the player, the enemies, the hearts and their eaten
\* flags, current_level, game_over and game_won as they were, and runs no
\* enemy move, drift step, pickup or collision check.
C20_MenuLeavesGameState ==
    [][(in_menu # 0 /\ steps' = steps + 1 /\ Resets' = {}) =>
         /\ UNCHANGED <<x, y, enemies, heart_x, heart_y, heart_eaten,
                        heart_direction_x, heart_direction_y,
                        current_level, game_over, game_won, in_menu>>
         /\ UNCHANGED <<pumpkin_move_delay, heart_move_delay, hearts_collected>>
         /\ EnemyPasses' = {} /\ DriftSteps' = {}
         /\ WinChecks' = {} /\ ResultMenus' = {}]_vars

\* the menu after a won game, two passes on: down, then confirm on
\* Controls, the state of the won game still there
C20_Witness ==
    /\ in_menu # 0 /\ steps = 2 /\ pc = "wait_controls"
    /\ game_won # 0 /\ heart_eaten = <<1, 1, 1, 1>> /\ x = 80 /\ y = 75

\* the reads of the confirm button made by the wait loop of an
\* informational screen in the last foreground step
InfoReads == {i \in 1..Len(calls) : calls[i].fn = "infoWait"}

\* C21: after confirm on Controls or Credits the flow returns to the menu
\* only on a read that finds the confirm button released, and the game
\* stays in the menu throughout.
C21_InfoScreenWaitsForRelease ==
    [][(pc \in {"wait_controls", "wait_credits"} /\ steps' = steps + 1) =>
         /\ in_menu' # 0
         /\ pc' = "loop" => \E i \in InfoReads' : ~calls'[i].pre.pressed]_vars

\* the positions of the enemies
EnemyPositions == [e \in 0..(MAX_ENEMIES - 1) |-> <<enemies[e].x, enemies[e].y>>]

\* C22: while game_won is set, until Play Again or Start Game resets it,
\* no enemy's position and no heart's position changes, whatever the
\* ticks and inputs; no enemy-update pass runs with game_won set.
C22_WinFreezesEntities ==
    [][/\ (game_won # 0 /\ Resets' = {}) =>
            /\ EnemyPositions' = EnemyPositions
            /\ heart_x' = heart_x /\ heart_y' = heart_y
       /\ \A i \in EnemyPasses' : calls'[i].pre.game_won = 0
       /\ \A i \in DriftSteps' :
            calls'[i].pre.game_won # 0 =>
                /\ calls'[i].post.heart_x = calls'[i].pre.heart_x
                /\ calls'[i].post.heart_y = calls'[i].pre.heart_y]_vars

\* a pass of the game loop made in the Win state with the drift step due,
\* the enemies active and away from the player
C22_Witness ==
    /\ game_won # 0 /\ in_menu = 0 /\ steps = 2
    /\ Resets = {} /\ DriftSteps # {}
    /\ enemies[1].active # 0

\* the game-flow states the flags put the game in: Menu while in_menu is
\* set, else GameOver with game_over, Win with game_won, Playing with
\* neither
FlowStates ==
    {f \in {"Menu", "Playing", "GameOver", "Win"} :
        \/ f = "Menu" /\ in_menu # 0
        \/ f = "Playing" /\ Playing
        \/ f = "GameOver" /\ in_menu = 0 /\ game_over # 0
        \/ f = "Win" /\ in_menu = 0 /\ game_won # 0}

\* C23: the game-flow transition is total and deterministic: from every
\* game-flow state and every sample of the buttons, one pass of the main
\* loop yields exactly one successor game-flow state.
C23_OneSuccessorFlowState ==
    [][steps' = steps + 1 => Cardinality(FlowStates') = 1]_vars

\* C24: milliseconds is changed only by the tick interrupt handler, by
\* exactly +1 (mod 2^32) per interrupt: over every step, foreground
\* (delay, game loop, menus, sound effects) or interrupt, it advances by
\* the number of runs of the handler.
C24_ClockWrittenByHandlerOnly ==
    [][milliseconds' = U32Add(milliseconds, U32Of(ticks' - ticks))]_vars

\* a pass of the game loop begun ten ticks before the clock wraps: the 20
\* ticks of its delay leave the clock at 10
C24_Witness ==
    milliseconds = U32Of(10) /\ ticks = 20 /\ steps = 1 /\ in_menu = 0

\* the foreground is inside delay
InDelay == pc \in {"delay_entry", "delay_test", "delay_wfi"}

\* the index after the handler's index++ and wrap
NextIndex == IF index + 1 >= background_tune_note_count THEN 0 ELSE index + 1

\* C25: while the foreground is blocked inside delay the tick interrupt
\* stays enabled and, with a repeating tune active, the sequencer steps on
\* every tick: the countdown of the note goes down by one, or, when it has
\* run out, the note index advances and the next note's countdown starts.
C25_TuneStepsDuringDelay ==
    [][(InDelay /\ ticks' = ticks + 1
            /\ background_tune_notes # NULL /\ background_repeat_tune # 0) =>
         /\ background_tune_notes' = background_tune_notes
         /\ IF current_note_timer > 0
            THEN current_note_timer' = current_note_timer - 1 /\ index' = index
            ELSE /\ index' = NextIndex
                 /\ index + 1 < background_tune_note_count =>
                        /\ background_tune_times[index' + 1] > 0
                        /\ current_note_timer' = background_tune_times[index' + 1] - 1]_vars

\* a delay of 3 ticks begun one tick before the end of the last note: the
\* countdown ran out, the index wrapped to 0 and note 1 was started
C25_Witness ==
    /\ dly = 3 /\ ticks = 3 /\ pc \in {"delay_test", "delay_wfi"}
    /\ index = 1 /\ current_note_timer = 299
    /\ last_cycle = <<1, 2, 3, 4>>

(* ------------------------------------------------------------------ *)
(* isWallCollision alone                                               *)
(* ------------------------------------------------------------------ *)
\* the pixels asked about: one in each cell of the grid, one column and
\* one row beyond it, and the largest uint16_t
WallArgs ==
    [x : {8 * c + 3 : c \in 0..16} \cup {U16 - 1},
     y : {8 * r + 5 : r \in 0..20} \cup {U16 - 1}]

WallInit ==
    \E a \in WallArgs, level \in {1, 2} :
        InitAs([PowerOn EXCEPT !.pc = "wall_call", !.args = a,
                               !.current_level = level])

WallCall ==
    /\ pc = "wall_call"
    /\ Commit([Begin(Cur) EXCEPT !.rvalue = isWallCollision(args.x, args.y),
                                 !.pc = "wall_ret"])

WallNext == WallCall

SpecWall == WallInit /\ [][WallNext]_vars

\* the layout of a level, as drawBackground selects it
LevelMaze(level) == IF level = 1 THEN maze ELSE maze_level2

\* C26: isWallCollision(x, y) returns 1 iff the cell (x/8, y/8) lies
\* outside the grid of 16 columns and 20 rows or the layout of the current
\* level (maze on level 1, maze_level2 on level 2) has a wall in it.
C26_WallOfCurrentLevel ==
    pc = "wall_ret" =>
        LET gridX == args.x \div 8
            gridY == args.y \div 8
        IN (rvalue = 1) <=>
               \/ ~(gridX \in 0..15 /\ gridY \in 0..19)
               \/ LevelMaze(current_level)[gridY + 1][gridX + 1] = 1

(* ------------------------------------------------------------------ *)
(* The elapsed-time gates and delay around the wrap of the clock       *)
(* ------------------------------------------------------------------ *)
\* ticks counted before the gates are read
MaxGateTicks == 401

\* clock values of the last enemy pass and the last drift step: one well
\* before the wrap, the others 1 to 400 ticks before it
GateClocks ==
    {EarlyClock} \cup {U32Sub(U32Of(0), U32Of(k)) : k \in {1, 20, 35, 200, 400}}

\* in play just after an enemy pass and a drift step at clock value clk,
\* or at the call of delay
WrapInit ==
    \/ \E clk \in GateClocks,
          lv \in {Level1, [Level2 EXCEPT !.heart_eaten = <<0, 0, 1, 1>>]} :
           InitAs([At(lv, clk, 0, 0) EXCEPT !.pc = "gate"])
    \/ DelayInit

\* the tick interrupt while the gates stay unread
GateTick ==
    /\ pc = "gate"
    /\ ticks < MaxGateTicks
    /\ Commit(SysTick_Handler(Begin(Cur)))

\* moveEnemies (line 911) and the drift block (lines 1008-1119) with the
\* clock as it stands
GateRead ==
    /\ pc = "gate"
    /\ \E s \in {moveEnemies(Begin(Cur))} :
       \E r1 \in Rand(s, 1), r2 \in Rand(s, 2), r3 \in Rand(s, 3), r4 \in Rand(s, 4) :
           Commit([HeartsAndCollision(s, <<r1, r2, r3, r4>>) EXCEPT !.pc = "gate_done"])

WrapNext == GateTick \/ GateRead \/ DelayEntry \/ DelayTest \/ DelayTick

SpecWrap == WrapInit /\ [][WrapNext]_vars

\* the clock value ticks ticks ago
ClockAtStart == U32Sub(milliseconds, U32Of(ticks))

\* the gates as read ticks ticks after the last pass and the last drift
GatesExact ==
    pc = "gate_done" =>
        /\ (EnemyPasses # {}) <=> (ticks >= LevelDelay(current_level))
        /\ (DriftSteps # {}) <=> (ticks >= 400)

\* delay does not return before dly ticks
DelayNotEarly == pc = "delay_ret" => ticks >= dly

\* a test of the loop condition made dly ticks after the call, with
\* end_time taken from the clock of the call, ends the delay
DelayReturnsOnTime ==
    (/\ pc = "delay_test" /\ pc' # "delay_test"
     /\ ticks = dly
     /\ end_time = U32Add(ClockAtStart, U32Of(dly)))
        => pc' = "delay_ret"

\* C27: the elapsed-time gates tolerate the wrap of the tick counter: read
\* n ticks after the last enemy pass and the last drift step, the enemy
\* gate is open iff n >= 30 (65 on level 2) and the drift gate iff
\* n >= 400, also when the counter has wrapped in between; a delay started
\* before the wrap does not return before its dly ticks, and the test made
\* after dly ticks returns.
C27_GatesTolerateWrap ==
    /\ [](GatesExact /\ DelayNotEarly)
    /\ [][DelayReturnsOnTime]_vars

\* the drift gate found open exactly 400 ticks after a drift step made 200
\* ticks before the wrap
C27_Witness ==
    /\ pc = "gate_done" /\ ticks = 400
    /\ milliseconds = U32Of(200)
    /\ DriftSteps # {}

\* v held between lo and hi
Clamp(v, lo, hi) == IF v < lo THEN lo ELSE IF v > hi THEN hi ELSE v

\* C28: a drift step moves every heart that is not eaten (hearts 3 and 4
\* on level 2 only) from (x, y) with the directions dx, dy it drew to
\* x' = min(max(x + 3*dx, 0), 115) and y' = min(max(y + 3*dy, 0), 144),
\* also next to coordinate 0 with direction -1.
C28_DriftStepClamped ==
    \A i \in DriftSteps : \A k \in 1..4 :
        (calls[i].pre.heart_eaten[k] = 0 /\ (k <= 2 \/ calls[i].pre.current_level = 2)) =>
            /\ calls[i].post.heart_x[k] =
                   Clamp(calls[i].pre.heart_x[k] + 3 * calls[i].post.heart_direction_x[k], 0, 115)
            /\ calls[i].post.heart_y[k] =
                   Clamp(calls[i].pre.heart_y[k] + 3 * calls[i].post.heart_direction_y[k], 0, 144)

\* C29: a drift step happens only with game_over clear and with the clock
\* at least 400 ticks past heart_move_delay, and it sets heart_move_delay
\* to the clock it read, so the next drift step is at least 400 ticks
\* later.
C29_DriftRateLimited ==
    \A i \in DriftSteps :
        LET pre == calls[i].pre
        IN /\ pre.game_over = 0
           /\ ~U32Lt(U32Sub(pre.milliseconds, pre.heart_move_delay), U32Of(400))
           /\ heart_move_delay = pre.milliseconds

\* a drift step exactly 400 ticks after the one before, the clock ten
\* ticks before its wrap
C29_Witness ==
    \E i \in DriftSteps :
        /\ calls[i].pre.milliseconds = LateClock
        /\ U32Sub(calls[i].pre.milliseconds, calls[i].pre.heart_move_delay) = U32Of(400)
        /\ heart_move_delay = LateClock

\* the player moves made by the last foreground step
PlayerMoves == {i \in 1..Len(calls) : calls[i].fn = "playerMove"}

\* where one press of button b, or the serial character r, takes (px, py)
MoveBy(px, py, inp) ==
    IF inp.pressed = {"right"} \/ (inp.pressed = {} /\ inp.serial_char = "r")
    THEN <<IF px < 115 THEN px + 1 ELSE px, py>>
    ELSE IF inp.pressed = {"left"} THEN <<IF px > 2 THEN px - 1 ELSE px, py>>
    ELSE IF inp.pressed = {"down"} THEN <<px, IF py < 144 THEN py + 1 ELSE py>>
    ELSE IF inp.pressed = {"up"} THEN <<px, IF py > 1 THEN py - 1 ELSE py>>
    ELSE <<px, py>>

\* one direction, or nothing, asked for
SinglePress(inp) ==
    \/ Cardinality(inp.pressed) = 1 /\ inp.serial_char = ""
    \/ inp.pressed = {}

\* C30: in play (game_over and game_won clear) one direction press moves
\* the player by exactly one pixel when the screen bound allows it (right
\* if x < 115, left if x > 2, down if y < 144, up if y > 1) and not at all
\* otherwise, whatever the maze has at the destination; the player's
\* position is always within [0,115] x [0,144].
C30_PlayerMovesThroughWalls ==
    /\ x \in 0..115 /\ y \in 0..144
    /\ \A i \in PlayerMoves :
           LET pre == calls[i].pre.game
               post == calls[i].post
           IN (pre.game_over = 0 /\ pre.game_won = 0 /\ SinglePress(calls[i].pre.inp)) =>
                  <<post.x, post.y>> = MoveBy(pre.x, pre.y, calls[i].pre.inp)

\* a press of right at (50, 50) on level 1 that moved the player to
\* (51, 50), a pixel of a wall block of maze
C30_Witness ==
    \E i \in PlayerMoves :
        /\ calls[i].pre.game.current_level = 1
        /\ calls[i].pre.game.game_over = 0 /\ calls[i].pre.game.game_won = 0
        /\ calls[i].pre.inp.pressed = {"right"}
        /\ calls[i].pre.game.x = 50 /\ calls[i].pre.game.y = 50
        /\ calls[i].post.x = 51 /\ calls[i].post.y = 50
        /\ maze[(50 \div 8) + 1][(51 \div 8) + 1] = 1

MaxWinCalls == 3

\* the states checkWinCondition is called in: in play on level 1 or 2
\* with any eaten flags and any stale hearts_collected, or won on level 2
\* with the four hearts eaten
WinInit ==
    \E lv \in {Level1, Level2}, e \in [1..4 -> {0, 1}], c \in 0..4, won \in {0, 1} :
        /\ won = 1 => (lv = Level2 /\ \A k \in 1..4 : e[k] = 1)
        /\ InitAs([At(lv, EarlyClock, 10, 10) EXCEPT
                       !.pc = "win_call", !.game_won = won,
                       !.heart_eaten = <<e[1], e[2], e[3], e[4]>>,
                       !.hearts_collected = c])

\* one more call; the log keeps the calls of the whole row
WinCall ==
    /\ pc = "win_call"
    /\ steps < MaxWinCalls
    /\ \E r \in {checkWinCondition(Cur)} : Commit([r EXCEPT !.steps = @ + 1])

WinNext == WinCall

SpecWin == WinInit /\ [][WinNext]_vars

\* the eaten flags of level lv summed
EatenOnLevel(lv, e) == e[1] + e[2] + (IF lv = 2 THEN e[3] + e[4] ELSE 0)

\* the check made a transition: to level 2, or to the win
Transitioned(c) ==
    \/ c.post.current_level # c.pre.current_level
    \/ c.post.game_won # c.pre.game_won

\* the fanfares started by the calls in the log
Fanfares ==
    {i \in 1..Len(calls) :
        calls[i].fn = "playNote" /\ calls[i].by = "main" /\ calls[i].arg = 800}

\* C32: checkWinCondition called again with the eaten flags as the call
\* before left them changes neither the level, the eaten flags, game_won
\* nor the enemies and plays no fanfare: in a row of calls the level
\* advances at most once and the win is entered, with one fanfare, at most
\* once; after a call that made no transition hearts_collected is the sum
\* of the current level's eaten flags.
C32_WinCheckIdempotent ==
    /\ \A i \in WinChecks : \A j \in WinChecks :
           i < j =>
               /\ calls[j].post.current_level = calls[j].pre.current_level
               /\ calls[j].post.heart_eaten = calls[j].pre.heart_eaten
               /\ calls[j].post.game_won = calls[j].pre.game_won
               /\ calls[j].post.enemies = calls[j].pre.enemies
    /\ Cardinality({i \in WinChecks : Transitioned(calls[i])}) <= 1
    /\ Cardinality(Fanfares) <= 1
    /\ \A i \in WinChecks :
           ~Transitioned(calls[i]) =>
               calls[i].post.hearts_collected =
                   EatenOnLevel(calls[i].post.current_level, calls[i].post.heart_eaten)

\* the final level completed by the first call of three: game_won set and
\* one fanfare played
C32_Witness ==
    /\ Cardinality(WinChecks) = 3
    /\ \E i \in WinChecks :
           /\ calls[i].pre.current_level = 2 /\ calls[i].pre.game_won = 0
           /\ calls[i].post.game_won = 1
    /\ Cardinality(Fanfares) = 1
    /\ game_won = 1

\* C33: at the end of every pass with game_over set outside the menu
\* every enemy's active flag is 0; only Play Again and Start Game, which
\* clear game_over, activate enemies again.
C33_GameOverEnemiesInactive ==
    (game_over # 0 /\ in_menu = 0) =>
        \A e \in 0..(MAX_ENEMIES - 1) : enemies[e].active = 0

\* the end of the pass whose drift block found the collision: game_over
\* was clear when the block was entered and no enemy is active now
C33_Witness ==
    /\ game_over # 0 /\ in_menu = 0
    /\ \E i \in DriftSteps : calls[i].pre.game_over = 0
    /\ \A e \in 0..(MAX_ENEMIES - 1) : enemies[e].active = 0

\* heart k was marked eaten during the last foreground step: the check
\* that follows the pickup saw its flag set
EatenInStep(k) ==
    \E j \in WinChecks : calls[j].pre.heart_eaten[k] # 0

\* C34: in a pass that starts in play every heart of the current level
\* that is not eaten and whose 12x16 box contains the player when its
\* pickup check is due (hearts 1 and 2 after the player movement, hearts 3
\* and 4 on level 2 after the drift block) is marked eaten in that pass,
\* whether the player moved or not.
C34_PickupEveryPass ==
    [][(Playing /\ steps' = steps + 1) =>
         \A i \in PlayerMoves' :
             /\ \A k \in 1..2 :
                    (/\ heart_eaten[k] = 0
                     /\ isInside(heart_x[k], heart_y[k], 12, 16,
                                 calls'[i].post.x, calls'[i].post.y) = 1)
                        => EatenInStep(k)'
             /\ \A k \in 3..4 :
                    (/\ current_level = 2 /\ heart_eaten[k] = 0
                     /\ isInside(heart_x'[k], heart_y'[k], 12, 16,
                                 calls'[i].post.x, calls'[i].post.y) = 1)
                        => EatenInStep(k)']_vars

MaxSetupTicks == 8

\* after playTune has returned (line 820): the descriptor still as at
\* power-on, the handler's statics never written
SetupInit ==
    \E clk \in {U32Of(1500), LateClock} :
        InitAs([initEnemies(PowerOn) EXCEPT !.pc = "set_notes",
                                            !.milliseconds = clk])

\* line 823
SetNotes ==
    /\ pc = "set_notes"
    /\ Commit([Begin(Cur) EXCEPT !.background_tune_notes = my_notes,
                                 !.pc = "set_times"])

\* line 824
SetTimes ==
    /\ pc = "set_times"
    /\ Commit([Begin(Cur) EXCEPT !.background_tune_times = my_note_times,
                                 !.pc = "set_count"])

\* line 825
SetCount ==
    /\ pc = "set_count"
    /\ Commit([Begin(Cur) EXCEPT !.background_tune_note_count = 5,
                                 !.pc = "set_repeat"])

\* line 826
SetRepeat ==
    /\ pc = "set_repeat"
    /\ Commit([Begin(Cur) EXCEPT !.background_repeat_tune = 1,
                                 !.pc = "tune_on"])

\* the tick interrupt, enabled since initSysTick (line 1223), taken before,
\* between and after the assignments
SetupTick ==
    /\ pc \in {"set_notes", "set_times", "set_count", "set_repeat", "tune_on"}
    /\ ticks < MaxSetupTicks
    /\ Commit(SysTick_Handler(Begin(Cur)))

SetupNext == SetNotes \/ SetTimes \/ SetCount \/ SetRepeat \/ SetupTick

SpecSetup == SetupInit /\ [][SetupNext]_vars

\* C36: wherever the tick interrupt falls among the four assignments of
\* the set-up, once the set-up has finished background_tune_notes is not
\* null: the sequencer is not Idle.
C36_TuneStaysConfigured ==
    pc = "tune_on" => background_tune_notes # NULL

\* the audio requests of the foreground during the last step
MainNotes == {i \in PlayNoteCalls : calls[i].by = "main"}

\* the audio requests of the tick handler during the last step
IsrNotes == {i \in PlayNoteCalls : calls[i].by = "isr"}

\* C37: from a foreground effect's playNote(tone) to the foreground's
\* next request the audio collaborator receives no request from the tick
\* handler, so the tone requested last is the effect's; and the last
\* request of the foreground in an effect is playNote(0).
C37_EffectHoldsTheTone ==
    /\ \A i \in MainNotes : \A j \in MainNotes :
           (i < j /\ calls[i].arg # 0 /\ ~\E m \in MainNotes : i < m /\ m < j) =>
               ~\E k \in IsrNotes : i < k /\ k < j
    /\ \A i \in MainNotes :
           (\A j \in MainNotes : j <= i) => calls[i].arg = 0

\* the last foreground step took the game into Win or into GameOver and
\* went on to the result menu
EnteredResult ==
    \/ \E w \in WinChecks : calls[w].pre.game_won = 0 /\ calls[w].post.game_won # 0
    \/ /\ DriftSteps # {}
       /\ \E r \in ResultMenus : calls[r].pre.game.game_over # 0

\* C38: in the pass that enters GameOver or Win the result menu starts
\* with game_over_selection = 0, Play Again highlighted, whatever was
\* selected in an earlier game.
C38_ResultMenuStartsAtPlayAgain ==
    EnteredResult =>
        \A r \in ResultMenus : calls[r].pre.game.game_over_selection = 0

====
